---- MODULE Spec2Model ----
(***************************************************************************)
(* Verification model of the flight-dynamics core: the PID controller      *)
(* (src/src/pid.cpp) and the RK4 integrator                                *)
(* (src/FlightDynamics/src/integrator.cpp).                                *)
(*                                                                         *)
(* A C++ double is modelled as an exact value n/d, where n and d are       *)
(* polynomials with integer coefficients in the literal 1e-10 (written     *)
(* Eps): <<c0, c1, c2>> stands for c0 + c1*Eps + c2*Eps^2.  Because every  *)
(* coefficient is a machine integer (below 2^31 < 1e10/4), the sign of a   *)
(* polynomial is the sign of its lowest-order non-zero coefficient, so     *)
(* comparisons against 1e-10 are decided exactly.  A zero denominator      *)
(* carries the IEEE-754 special values: 1/0 is +inf, -1/0 is -inf and 0/0  *)
(* is NaN.  Rounding error is not modelled.                                *)
(***************************************************************************)
EXTENDS Integers, Sequences, FiniteSets, TLC

----------------------------------------------------------------------------
(* Polynomials in Eps with integer coefficients; <<0>> is the zero         *)
(* polynomial and the last coefficient of any other polynomial is not 0.   *)

Abs(x) == IF x < 0 THEN -x ELSE x

Max2(a, b) == IF a < b THEN b ELSE a

Min2(a, b) == IF b < a THEN b ELSE a

Sgn(x) == IF x > 0 THEN 1 ELSE IF x < 0 THEN -1 ELSE 0

RECURSIVE GCD(_, _)
GCD(a, b) == IF b = 0 THEN a ELSE GCD(b, a % b)

\* the value of a function of one argument list: in Val([x \in {e} |-> body])
\* the expression e is evaluated once and body sees its value as x
Val(f) == CHOOSE r \in { f[x] : x \in DOMAIN f } : TRUE

PCoef(p, i) == IF i <= Len(p) THEN p[i] ELSE 0

RECURSIVE PTrim(_)
PTrim(p) ==
    IF Len(p) > 1 /\ p[Len(p)] = 0 THEN PTrim(SubSeq(p, 1, Len(p) - 1)) ELSE p

PAdd(p, q) ==
    IF Len(p) = 1 /\ Len(q) = 1 THEN <<p[1] + q[1]>>
    ELSE PTrim([i \in 1..Max2(Len(p), Len(q)) |-> PCoef(p, i) + PCoef(q, i)])

PNeg(p) == IF Len(p) = 1 THEN <<-p[1]>> ELSE [i \in 1..Len(p) |-> -p[i]]

RECURSIVE PConv(_, _, _, _)
PConv(p, q, k, i) ==
    IF i > Min2(k, Len(p)) THEN 0
    ELSE (IF k + 1 - i <= Len(q) THEN p[i] * q[k + 1 - i] ELSE 0) + PConv(p, q, k, i + 1)

PMul(p, q) ==
    IF Len(p) = 1 /\ Len(q) = 1 THEN <<p[1] * q[1]>>
    ELSE IF p = <<0>> \/ q = <<0>> THEN <<0>>
    ELSE [k \in 1..(Len(p) + Len(q) - 1) |-> PConv(p, q, k, 1)]

\* index of the lowest-order non-zero coefficient, 0 for the zero polynomial
RECURSIVE PLow(_, _)
PLow(p, i) == IF i > Len(p) THEN 0 ELSE IF p[i] # 0 THEN i ELSE PLow(p, i + 1)

\* sign of the value of p at Eps = 1e-10: sign of the lowest-order non-zero coefficient
PSign(p) ==
    IF Len(p) = 1 THEN Sgn(p[1])
    ELSE Val([i \in {PLow(p, 1)} |-> IF i = 0 THEN 0 ELSE Sgn(p[i])])

RECURSIVE PContent(_, _)
PContent(p, i) == IF i > Len(p) THEN 0 ELSE GCD(Abs(p[i]), PContent(p, i + 1))

\* p with its v lowest (zero) coefficients dropped and the others divided by s*g
PQuot(p, v, s, g) == [i \in 1..(Len(p) - v) |-> s * (p[i + v] \div g)]

----------------------------------------------------------------------------
(* double values and the IEEE-754 operations the code applies to them. *)

\* the value n/d for integers n and d
NormInt(n, d) ==
    IF d = 0 THEN <<<<Sgn(n)>>, <<0>>>>
    ELSE IF n = 0 THEN <<<<0>>, <<1>>>>
    ELSE Val([g \in {GCD(Abs(n), Abs(d))} |->
            <<<<Sgn(d) * (n \div g)>>, <<Sgn(d) * (d \div g)>>>>])

\* the value n/d for polynomials n and d, in lowest integer terms and with a
\* positive denominator
NormPoly(n, d) ==
    Val([s \in {PSign(d)} |->
        IF s = 0 THEN <<<<PSign(n)>>, <<0>>>>
        ELSE IF PSign(n) = 0 THEN <<<<0>>, <<1>>>>
        ELSE <<PQuot(n, Min2(PLow(n, 1), PLow(d, 1)) - 1, s,
                     GCD(PContent(n, 1), PContent(d, 1))),
               PQuot(d, Min2(PLow(n, 1), PLow(d, 1)) - 1, s,
                     GCD(PContent(n, 1), PContent(d, 1)))>>])

Norm(n0, d0) ==
    CHOOSE r \in { IF Len(n) = 1 /\ Len(d) = 1 THEN NormInt(n[1], d[1]) ELSE NormPoly(n, d)
                   : n \in {n0}, d \in {d0} } : TRUE

Q(a, b) == NormInt(a, b)

Zero == Q(0, 1)

\* the literal 1e-10
Eps == <<<<0, 1>>, <<1>>>>

NaN == <<<<0>>, <<0>>>>

IsNaN(a) == a = NaN

IsInf(a) == a[2] = <<0>> /\ a[1] # <<0>>

IsFinite(a) == a[2] # <<0>>

negV(a) == <<PNeg(a[1]), a[2]>>

\* a + b for finite a and b whose polynomials are integers, over the least
\* common denominator
addInt(an, ad, bn, bd) ==
    Val([g \in {GCD(ad, bd)} |-> NormInt(an * (bd \div g) + bn * (ad \div g), (ad \div g) * bd)])

\* a * b for finite a and b whose polynomials are integers, cancelling first
mulInt(an, ad, bn, bd) ==
    Val([g \in {GCD(Abs(an), bd)}, h \in {GCD(Abs(bn), ad)} |->
        IF an = 0 \/ bn = 0 THEN <<<<0>>, <<1>>>>
        ELSE <<<<(an \div g) * (bn \div h)>>, <<(ad \div h) * (bd \div g)>>>>])

IsInt(a) == Len(a[1]) = 1 /\ Len(a[2]) = 1 /\ a[2][1] > 0

addV(a, b) ==
    IF IsInt(a) /\ IsInt(b) THEN addInt(a[1][1], a[2][1], b[1][1], b[2][1])
    ELSE IF a[2] = <<0>> /\ b[2] = <<0>>
    THEN (IF a = b THEN a ELSE NaN)
    ELSE Norm(PAdd(PMul(a[1], b[2]), PMul(b[1], a[2])), PMul(a[2], b[2]))

mulV(a, b) ==
    IF IsInt(a) /\ IsInt(b) THEN mulInt(a[1][1], a[2][1], b[1][1], b[2][1])
    ELSE Norm(PMul(a[1], b[1]), PMul(a[2], b[2]))

\* 1/b, keeping the sign of b in the numerator (the zero of the model is +0)
Recip(b) == IF PSign(b[1]) < 0 THEN <<PNeg(b[2]), PNeg(b[1])>> ELSE <<b[2], b[1]>>

divV(a, b) ==
    Val([r \in {Recip(b)} |->
        IF IsInt(a) /\ IsInt(r) THEN mulInt(a[1][1], a[2][1], r[1][1], r[2][1])
        ELSE Norm(PMul(a[1], r[1]), PMul(a[2], r[2]))])

ltV(a, b) ==
    /\ a # NaN
    /\ b # NaN
    /\ IF IsInt(a) /\ IsInt(b)
       THEN Val([g \in {GCD(a[2][1], b[2][1])} |->
                a[1][1] * (b[2][1] \div g) < b[1][1] * (a[2][1] \div g)])
       ELSE IF a[2] = <<0>> /\ b[2] = <<0>>
       THEN a[1][1] < b[1][1]
       ELSE PSign(PAdd(PMul(a[1], b[2]), PNeg(PMul(b[1], a[2])))) < 0

dNeg(a) == Val([va \in {a} |-> negV(va)])

dAdd(a, b) == Val([va \in {a}, vb \in {b} |-> addV(va, vb)])

dSub(a, b) == Val([y \in {a}, z \in {b} |-> addV(y, negV(z))])

dMul(a, b) == Val([va \in {a}, vb \in {b} |-> mulV(va, vb)])

dDiv(a, b) == Val([va \in {a}, vb \in {b} |-> divV(va, vb)])

dLt(a, b) == Val([va \in {a}, vb \in {b} |-> ltV(va, vb)])

dGt(a, b) == Val([va \in {b}, vb \in {a} |-> ltV(va, vb)])

dLe(a, b) == Val([y \in {a}, z \in {b} |-> y # NaN /\ z # NaN /\ ~ltV(z, y)])

dEq(a, b) == Val([y \in {a}, z \in {b} |-> y # NaN /\ z # NaN /\ ~ltV(y, z) /\ ~ltV(z, y)])

----------------------------------------------------------------------------
(* std::clamp (pid.cpp includes <algorithm>).  The standard requires       *)
(* !(hi < lo); when the caller breaks that, the result is whatever the     *)
(* library's expression yields.  libc++ and MSVC use the ternary form,     *)
(* libstdc++ uses min(max(v, lo), hi).  The two agree whenever lo <= hi.   *)

StdLibs == {"ternary", "minmax"}

stdmax(a, b) == IF ltV(a, b) THEN b ELSE a

stdmin(a, b) == IF ltV(b, a) THEN b ELSE a

clampV(lib, v, lo, hi) ==
    IF lib = "ternary"
    THEN (IF ltV(v, lo) THEN lo ELSE IF ltV(hi, v) THEN hi ELSE v)
    ELSE stdmin(stdmax(v, lo), hi)

clamp(lib, v0, lo0, hi0) ==
    CHOOSE r \in { clampV(lib, v, lo, hi) : v \in {v0}, lo \in {lo0}, hi \in {hi0} } : TRUE

----------------------------------------------------------------------------
(* PIDController, src/src/pid.cpp *)

PIDController(Kp, Ki, Kd, output_min, output_max) ==
    [Kp |-> Kp, Ki |-> Ki, Kd |-> Kd,
     output_min |-> output_min, output_max |-> output_max,
     integral |-> Zero, previous_error |-> Zero, first_update |-> TRUE,
     p_term |-> Zero, i_term |-> Zero, d_term |-> Zero]

\* accumulate with the time step dropped: integral += error
accumulate_NoDt(integral, error, dt) == dAdd(integral, error)

\* STEP 2: integral += error * dt
accumulate(integral, error, dt) == dAdd(integral, dMul(error, dt))

\* STEP 3: (output_max - output_min) / (Ki + 1e-10)
max_integral(c) == dDiv(dSub(c.output_max, c.output_min), dAdd(c.Ki, Eps))

\* STEP 3: integral = std::clamp(integral, -max_integral, max_integral)
antiWindup(lib, integral, maxI) == clamp(lib, integral, dNeg(maxI), maxI)

\* derivative guarded by dt > 0 instead of dt > 1e-10
derivative_ZeroGuard(first_update, error, previous_error, dt) ==
    IF ~first_update /\ dGt(dt, Zero)
    THEN dDiv(dSub(error, previous_error), dt)
    ELSE Zero

\* STEP 4: derivative, skipped on the first update and for dt <= 1e-10
derivative(first_update, error, previous_error, dt) ==
    IF ~first_update /\ dGt(dt, Eps)
    THEN dDiv(dSub(error, previous_error), dt)
    ELSE Zero

\* terms with the integral gain left out of the integral term
terms_NoKi(c, error, integral, deriv) ==
    [p_term |-> dMul(c.Kp, error),
     i_term |-> integral,
     d_term |-> dMul(c.Kd, deriv)]

\* STEP 5: the three terms
terms(c, error, integral, deriv) ==
    [p_term |-> dMul(c.Kp, error),
     i_term |-> dMul(c.Ki, integral),
     d_term |-> dMul(c.Kd, deriv)]

\* limitOutput without the clamp
limitOutput_NoClamp(lib, c, output) == output

\* STEP 7: output = std::clamp(output, output_min, output_max)
limitOutput(lib, c, output) == clamp(lib, output, c.output_min, c.output_max)

\* PIDController::update: the new object state, the returned value and the
\* local `derivative`
update(lib, c, setpoint, measurement, dt) ==
    Val([error \in {dSub(setpoint, measurement)} |->
    Val([integral \in {antiWindup(lib, accumulate(c.integral, error, dt), max_integral(c))} |->
    Val([deriv \in {derivative(c.first_update, error, c.previous_error, dt)} |->
    Val([t \in {terms(c, error, integral, deriv)} |->
        [pid |-> [c EXCEPT !.integral = integral,
                           !.first_update = FALSE,
                           !.p_term = t.p_term,
                           !.i_term = t.i_term,
                           !.d_term = t.d_term,
                           !.previous_error = error],
         output |-> limitOutput(lib, c, dAdd(dAdd(t.p_term, t.i_term), t.d_term)),
         derivative |-> deriv]])])])])

\* reset that keeps the accumulated integral
reset_KeepIntegral(c) ==
    [c EXCEPT !.previous_error = Zero,
              !.first_update = TRUE,
              !.p_term = Zero,
              !.i_term = Zero,
              !.d_term = Zero]

\* reset that does not re-arm the first-update flag
reset_KeepFlag(c) ==
    [c EXCEPT !.integral = Zero,
              !.previous_error = Zero,
              !.p_term = Zero,
              !.i_term = Zero,
              !.d_term = Zero]

reset(c) ==
    [c EXCEPT !.integral = Zero,
              !.previous_error = Zero,
              !.first_update = TRUE,
              !.p_term = Zero,
              !.i_term = Zero,
              !.d_term = Zero]

\* setOutputLimits that also clamps the stored integral to the new bound
setOutputLimits_Reclamp(c, min, max) ==
    [c EXCEPT !.output_min = min,
              !.output_max = max,
              !.integral = clamp("ternary", c.integral,
                                 dNeg(dDiv(dSub(max, min), dAdd(c.Ki, Eps))),
                                 dDiv(dSub(max, min), dAdd(c.Ki, Eps)))]

setOutputLimits(c, min, max) == [c EXCEPT !.output_min = min, !.output_max = max]

----------------------------------------------------------------------------
(* Bounds and input sets of the PID specification. *)

\* calls made on the controller in one behaviour
MaxCalls == 3

\* <<Kp, Ki, Kd>>: gains of tests/pid_tests.cpp (I only, D only, none, all
\* three), a negative integral gain and the integral gain that cancels 1e-10
Gains ==
    { <<Zero, Q(1, 1), Zero>>,
      <<Zero, Zero, Q(1, 1)>>,
      <<Zero, Zero, Zero>>,
      <<Q(1, 2), Q(1, 10), Q(1, 20)>>,
      <<Zero, Q(-1, 1), Zero>>,
      <<Zero, dNeg(Eps), Zero>> }

\* <<output_min, output_max>> given to the constructor
Limits == { <<Q(-10, 1), Q(10, 1)>> }

\* <<min, max>> given to setOutputLimits: a range without 0 and an inverted one
NewLimits == { <<Q(1, 1), Q(2, 1)>>, <<Q(1, 1), Zero>> }

Setpoints == { Q(10, 1) }

Measurements == { Q(5, 1), Q(100, 1) }

TimeSteps == { Eps, Q(1, 10) }

\* the builds that can differ on this object: the two forms of std::clamp
\* agree unless one of the two calls in update is made with hi < lo
Libs(c) ==
    IF dLt(c.output_max, c.output_min) \/ dLt(max_integral(c), Zero)
    THEN StdLibs
    ELSE {"ternary"}

----------------------------------------------------------------------------
(* Vec2 (src/FlightDynamics/src/vec2.hpp) and integrateRK4                  *)
(* (src/FlightDynamics/src/integrator.cpp).  A Vec2 is the pair <<x, y>>.  *)

Vec2(x, y) == <<x, y>>

\* Vec2::operator+
vPlus(u, w) == Val([a \in {u}, b \in {w} |-> <<dAdd(a[1], b[1]), dAdd(a[2], b[2])>>])

\* Vec2::operator*(double)
vTimes(u, scalar) == Val([a \in {u}, k \in {scalar} |-> <<dMul(a[1], k), dMul(a[2], k)>>])

\* integrateRK4 with the end-point stage k4 taken at the midpoint
integrateRK4_MidK4(position, velocity, acceleration, dt) ==
    LET k1_pos   == velocity
        k2_pos   == vPlus(velocity, vTimes(acceleration, dMul(dt, Q(1, 2))))
        k3_pos   == vPlus(velocity, vTimes(acceleration, dMul(dt, Q(1, 2))))
        k4_pos   == vPlus(velocity, vTimes(acceleration, dMul(dt, Q(1, 2))))
    IN  << vPlus(position,
                 vTimes(vPlus(vPlus(vPlus(k1_pos, vTimes(k2_pos, Q(2, 1))),
                                    vTimes(k3_pos, Q(2, 1))), k4_pos),
                        dDiv(dt, Q(6, 1)))),
           vPlus(velocity,
                 vTimes(vPlus(vPlus(vPlus(acceleration, vTimes(acceleration, Q(2, 1))),
                                    vTimes(acceleration, Q(2, 1))), acceleration),
                        dDiv(dt, Q(6, 1)))) >>

\* integrateRK4 with the position advanced by the starting velocity only
integrateRK4_Euler(position, velocity, acceleration, dt) ==
    << vPlus(position, vTimes(velocity, dt)),
       vPlus(velocity, vTimes(acceleration, dt)) >>

\* integrateRK4: the new <<position, velocity>>
integrateRK4(position, velocity, acceleration, dt) ==
    LET k1_vel   == acceleration
        k1_pos   == velocity
        vel_mid1 == vPlus(velocity, vTimes(k1_vel, dMul(dt, Q(1, 2))))
        k2_vel   == acceleration
        k2_pos   == vel_mid1
        vel_mid2 == vPlus(velocity, vTimes(k2_vel, dMul(dt, Q(1, 2))))
        k3_vel   == acceleration
        k3_pos   == vel_mid2
        vel_end  == vPlus(velocity, vTimes(k3_vel, dt))
        k4_vel   == acceleration
        k4_pos   == vel_end
    IN  << vPlus(position,
                 vTimes(vPlus(vPlus(vPlus(k1_pos, vTimes(k2_pos, Q(2, 1))),
                                    vTimes(k3_pos, Q(2, 1))), k4_pos),
                        dDiv(dt, Q(6, 1)))),
           vPlus(velocity,
                 vTimes(vPlus(vPlus(vPlus(k1_vel, vTimes(k2_vel, Q(2, 1))),
                                    vTimes(k3_vel, Q(2, 1))), k4_vel),
                        dDiv(dt, Q(6, 1)))) >>

----------------------------------------------------------------------------
(* Bounds and input sets of the integrator specification: the values of    *)
(* tests/integrator_tests.cpp.                                             *)

MaxSteps == 2

Positions == { Vec2(Zero, Zero), Vec2(Zero, Q(10, 1)) }

Velocities == { Vec2(Zero, Zero), Vec2(Q(10, 1), Q(5, 1)), Vec2(Q(5, 1), Zero) }

Accelerations == { Vec2(Zero, Zero), Vec2(Q(10, 1), Zero), Vec2(Q(2, 1), Q(-981, 100)) }

StepSizes == { Q(1, 1), Q(1, 10) }

----------------------------------------------------------------------------
(* Text handling of the loaders.  A std::string is the sequence of its     *)
(* characters, each a one-character string.                                *)

Letters ==
    {
      "a", "b", "c", "d", "e", "f", "g", "h", "i", "j", "k", "l", "m", "n",
      "o", "p", "q", "r", "s", "t", "u", "v", "w", "x", "y", "z", "A", "B",
      "C", "D", "E", "F", "G", "H", "I", "J", "K", "L", "M", "N", "O", "P",
      "Q", "R", "S", "T", "U", "V", "W", "X", "Y", "Z" }

WhiteSpace == { " ", "\t", "\r", "\n" }

DigitChars == <<"0", "1", "2", "3", "4", "5", "6", "7", "8", "9">>

IsDigit(c) == \E i \in 1..10 : DigitChars[i] = c

DigitVal(c) == (CHOOSE i \in 1..10 : DigitChars[i] = c) - 1

\* std::isalpha
isalpha(c) == c \in Letters

RECURSIVE Pow10(_)
Pow10(k) == IF k = 0 THEN 1 ELSE 10 * Pow10(k - 1)

RECURSIVE SkipSpace(_, _)
SkipSpace(s, i) == IF i <= Len(s) /\ s[i] \in WhiteSpace THEN SkipSpace(s, i + 1) ELSE i

\* <<index after the digits, their value, how many>>
RECURSIVE ScanDigits(_, _, _, _)
ScanDigits(s, i, acc, n) ==
    IF i <= Len(s) /\ IsDigit(s[i])
    THEN ScanDigits(s, i + 1, 10 * acc + DigitVal(s[i]), n + 1)
    ELSE <<i, acc, n>>

\* std::stod on decimal text: leading white space, an optional sign, digits
\* with an optional fraction; whatever follows is ignored.  ok = FALSE is
\* std::invalid_argument (no digits where the number should start).
stod(s) ==
    Val([i0 \in {SkipSpace(s, 1)} |->
    Val([signed \in {i0 <= Len(s) /\ s[i0] \in {"-", "+"}} |->
    Val([ip \in {ScanDigits(s, IF signed THEN i0 + 1 ELSE i0, 0, 0)} |->
    Val([fp \in {IF ip[1] <= Len(s) /\ s[ip[1]] = "."
                 THEN ScanDigits(s, ip[1] + 1, 0, 0)
                 ELSE <<ip[1], 0, 0>>} |->
        IF ip[3] + fp[3] = 0
        THEN [ok |-> FALSE, value |-> Zero]
        ELSE [ok |-> TRUE,
              value |-> Val([mag \in {Q(ip[2] * Pow10(fp[3]) + fp[2], Pow10(fp[3]))} |->
                            IF signed /\ s[i0] = "-" THEN dNeg(mag) ELSE mag])]])])])])

\* the pieces of a line between its commas
RECURSIVE Split(_, _, _)
Split(s, i, cur) ==
    IF i > Len(s) THEN <<cur>>
    ELSE IF s[i] = "," THEN <<cur>> \o Split(s, i + 1, <<>>)
    ELSE Split(s, i + 1, Append(cur, s[i]))

\* std::getline(ss, token, ',') succeeds for each piece, except for an
\* empty piece at the very end of the line (nothing is left to extract)
Tokens(line) ==
    Val([pieces \in {Split(line, 1, <<>>)} |->
        IF pieces[Len(pieces)] = <<>> THEN SubSeq(pieces, 1, Len(pieces) - 1) ELSE pieces])

\* line.empty() || line.find_first_not_of(" \t\r\n") == npos
IsBlank(line) == \A i \in 1..Len(line) : line[i] \in WhiteSpace

----------------------------------------------------------------------------
(* AeroDataTable, src/src/aerodynamics/aero_data.hpp.  A table is the      *)
(* sequence `data` of DataPoints; `getValue` names the member the lambda   *)
(* of getCL or getCD returns.                                              *)

\* the literal 3.14159265358979323846, carried to seven significant digits
M_PI == Q(355, 113)

DataPoint(alpha, CL, CD) == [alpha |-> alpha, CL |-> CL, CD |-> CD]

\* lines 57-76: "skip" for the `continue`s, "throw" when std::stod throws
parseRow(line) ==
    Val([tk \in {Tokens(line)} |->
        IF Len(tk) < 1 THEN [kind |-> "skip"]
        ELSE Val([a \in {stod(tk[1])} |->
            IF ~a.ok THEN [kind |-> "throw"]
            ELSE IF Len(tk) < 2 THEN [kind |-> "skip"]
            ELSE Val([l \in {stod(tk[2])} |->
                IF ~l.ok THEN [kind |-> "throw"]
                ELSE IF Len(tk) < 3 THEN [kind |-> "skip"]
                ELSE Val([d \in {stod(tk[3])} |->
                    IF ~d.ok THEN [kind |-> "throw"]
                    ELSE [kind |-> "point",
                          point |-> DataPoint(dDiv(dMul(a.value, M_PI), Q(180, 1)),
                                              l.value, d.value)]])])])])

\* the while loop of lines 42-77
RECURSIVE readRows(_, _, _, _)
readRows(lines, i, firstLine, data) ==
    IF i > Len(lines) THEN [status |-> "ok", data |-> data]
    ELSE IF IsBlank(lines[i]) THEN readRows(lines, i + 1, firstLine, data)
    ELSE IF firstLine /\ isalpha(lines[i][1]) THEN readRows(lines, i + 1, FALSE, data)
    ELSE Val([r \in {parseRow(lines[i])} |->
             IF r.kind = "throw" THEN [status |-> "invalid_argument", data |-> <<>>]
             ELSE IF r.kind = "skip" THEN readRows(lines, i + 1, FALSE, data)
             ELSE readRows(lines, i + 1, FALSE, Append(data, r.point))])

IsSortedByAlpha(data) == \A i \in 1..(Len(data) - 1) : ~dLt(data[i + 1].alpha, data[i].alpha)

\* std::sort is not stable: any ascending arrangement of the points
Sorted(data) ==
    { [i \in 1..Len(data) |-> data[f[i]]] :
        f \in { g \in [1..Len(data) -> 1..Len(data)] :
                  /\ \A i, j \in 1..Len(data) : i # j => g[i] # g[j]
                  /\ IsSortedByAlpha([i \in 1..Len(data) |-> data[g[i]]]) } }

\* A file that cannot be opened
Unreadable == [readable |-> FALSE, lines |-> <<>>]

TextFile(lines) == [readable |-> TRUE, lines |-> lines]

\* the outcomes of loadFromCSV(file): the table returned, or the exception
loadFromCSV(file) ==
    IF ~file.readable THEN { [status |-> "runtime_error", data |-> <<>>] }
    ELSE Val([r \in {readRows(file.lines, 1, TRUE, <<>>)} |->
             IF r.status # "ok" THEN { r }
             ELSE IF r.data = <<>> THEN { [status |-> "runtime_error", data |-> <<>>] }
             ELSE { [status |-> "ok", data |-> d] : d \in Sorted(r.data) }])

lerp(data, i, alpha, getValue) ==
    Val([t \in {dDiv(dSub(alpha, data[i].alpha), dSub(data[i + 1].alpha, data[i].alpha))} |->
        dAdd(data[i][getValue], dMul(t, dSub(data[i + 1][getValue], data[i][getValue])))])

\* the for loop of lines 129-139
RECURSIVE findBracket(_, _, _, _)
findBracket(data, i, alpha, getValue) ==
    IF i > Len(data) - 1 THEN data[Len(data)][getValue]
    ELSE IF dLe(data[i].alpha, alpha) /\ dLe(alpha, data[i + 1].alpha)
         THEN lerp(data, i, alpha, getValue)
         ELSE findBracket(data, i + 1, alpha, getValue)

\* interpolate that takes the last pair of neighbours around alpha
interpolate_LastBracket(data, alpha, getValue) ==
    IF data = <<>> THEN Zero
    ELSE IF dLe(alpha, data[1].alpha) THEN data[1][getValue]
    ELSE IF dLe(data[Len(data)].alpha, alpha) THEN data[Len(data)][getValue]
    ELSE lerp(data,
              CHOOSE i \in 1..(Len(data) - 1) :
                  /\ dLe(data[i].alpha, alpha) /\ dLe(alpha, data[i + 1].alpha)
                  /\ \A j \in (i + 1)..(Len(data) - 1) :
                        ~(dLe(data[j].alpha, alpha) /\ dLe(alpha, data[j + 1].alpha)),
              alpha, getValue)

interpolate_Extrapolate(data, alpha, getValue) ==
    IF data = <<>> THEN Zero
    ELSE IF Len(data) = 1 THEN data[1][getValue]
    ELSE IF dLe(alpha, data[1].alpha) THEN lerp(data, 1, alpha, getValue)
    ELSE IF dLe(data[Len(data)].alpha, alpha) THEN lerp(data, Len(data) - 1, alpha, getValue)
    ELSE findBracket(data, 1, alpha, getValue)

interpolate_Step(data, alpha, getValue) ==
    IF data = <<>> THEN Zero
    ELSE IF dLe(alpha, data[1].alpha) THEN data[1][getValue]
    ELSE IF dLe(data[Len(data)].alpha, alpha) THEN data[Len(data)][getValue]
    ELSE data[CHOOSE i \in 1..(Len(data) - 1) :
                  dLe(data[i].alpha, alpha) /\ dLe(alpha, data[i + 1].alpha)][getValue]

interpolate(data, alpha, getValue) ==
    IF data = <<>> THEN Zero
    ELSE IF dLe(alpha, data[1].alpha) THEN data[1][getValue]
    ELSE IF dLe(data[Len(data)].alpha, alpha) THEN data[Len(data)][getValue]
    ELSE findBracket(data, 1, alpha, getValue)

getCL(data, alpha) == interpolate(data, alpha, "CL")

getCD(data, alpha) == interpolate(data, alpha, "CD")

----------------------------------------------------------------------------
(* Aerodynamic data files offered to loadFromCSV, line by line. *)

\* alpha,CL,CD
HeaderRow ==
    <<
      "a", "l", "p", "h", "a", ",", "C", "L", ",", "C", "D" >>

\* "alpha",CL,CD
QuotedHeaderRow ==
    <<
      "\"", "a", "l", "p", "h", "a", "\"", ",", "C", "L", ",", "C", "D" >>

\*  
BlankRow ==
    <<
      " " >>

\* 5,1
ShortRow ==
    <<
      "5", ",", "1" >>

\* -5,-0.3,0.03
RowM5 ==
    <<
      "-", "5", ",", "-", "0", ".", "3", ",", "0", ".", "0", "3" >>

\* 0,0.2,0.02
Row0 ==
    <<
      "0", ",", "0", ".", "2", ",", "0", ".", "0", "2" >>

\* 5,0.7,0.03
Row5 ==
    <<
      "5", ",", "0", ".", "7", ",", "0", ".", "0", "3" >>

\* 5,0.9,0.04
Row5b ==
    <<
      "5", ",", "0", ".", "9", ",", "0", ".", "0", "4" >>

\* 10,1.2,0.05\r
Row10 ==
    <<
      "1", "0", ",", "1", ".", "2", ",", "0", ".", "0", "5", "\r" >>

CsvFiles ==
    { TextFile(<<HeaderRow, Row0, Row5, Row10>>),
      TextFile(<<Row10, BlankRow, RowM5, Row5>>),
      TextFile(<<BlankRow, HeaderRow, Row0, ShortRow, Row10>>),
      TextFile(<<Row0, Row5, Row5b, Row10>>),
      TextFile(<<Row5>>),
      TextFile(<<HeaderRow, BlankRow>>),
      TextFile(<<>>),
      TextFile(<<Row0, HeaderRow, Row5>>),
      TextFile(<<QuotedHeaderRow, Row0, Row5>>),
      Unreadable }

\* angles of attack asked of a table, in degrees
QueryDegrees == { Q(-10, 1), Q(-5, 1), Zero, Q(5, 2), Q(5, 1), Q(7, 1), Q(10, 1), Q(15, 1) }

radians(deg) == dDiv(dMul(deg, M_PI), Q(180, 1))

MaxQueries == 2

----------------------------------------------------------------------------
(* Finite precision.  The PID controller, the integrator and the table     *)
(* interpolation are evaluated exactly.  The force computation of a tick   *)
(* calls sqrt, cos, sin and pow, whose results are not rational, so there  *)
(* every double result is rounded, as the machine rounds it, but to a      *)
(* fixed number of decimals that keeps the values within TLC's integers.   *)
(* A float keeps the rounding of binary32 with a shorter significand.      *)

\* decimals kept by a double result of the force computation: 1/Grid
Grid == 100

\* decimals kept by sqrt
SqrtGrid == 1000

\* significand bits of a float, and the exponent of its smallest spacing
FloatBits == 8

FloatMinExp == 12

RECURSIVE Pow2(_)
Pow2(k) == IF k = 0 THEN 1 ELSE 2 * Pow2(k - 1)

\* <<quotient, remainder>> of r * grid by d, for 0 <= r < d, without forming
\* the product
RECURSIVE mulDiv(_, _, _)
mulDiv(r, grid, d) ==
    IF grid = 0 THEN <<0, 0>>
    ELSE Val([h \in {mulDiv(r, grid \div 2, d)} |->
         Val([q2 \in {2 * h[1] + (IF h[2] >= d - h[2] THEN 1 ELSE 0)},
              r2 \in {IF h[2] >= d - h[2] THEN h[2] - (d - h[2]) ELSE h[2] + h[2]} |->
             IF grid % 2 = 0 THEN <<q2, r2>>
             ELSE IF r2 >= d - r THEN <<q2 + 1, r2 - (d - r)>>
             ELSE <<q2, r2 + r>>])])

\* x to the nearest multiple of 1/grid, halves away from zero; non-finite
\* values pass through
round(x, grid) ==
    IF ~IsInt(x) THEN x
    ELSE Val([n \in {Abs(x[1][1])}, d \in {x[2][1]} |->
         Val([f \in {mulDiv(n % d, grid, d)} |->
             Q(Sgn(x[1][1]) * ((n \div d) * grid + f[1]
                               + (IF f[2] >= d - f[2] THEN 1 ELSE 0)), grid)])])

fl(x) == Val([y \in {x} |-> round(y, Grid)])

RECURSIVE isqrtIter(_, _)
isqrtIter(n, k) ==
    Val([k2 \in {(k + n \div k) \div 2} |-> IF k2 >= k THEN k ELSE isqrtIter(n, k2)])

\* the integer part of the square root of n >= 0
isqrt(n) == IF n < 2 THEN n ELSE isqrtIter(n, n)

\* std::sqrt: exact on the square of a rational, otherwise rounded down to
\* 1/SqrtGrid (to 1/10 from 2000 on); NaN for NaN and for negative arguments
sqrtV(x) ==
    IF x = NaN \/ ltV(x, Zero) THEN NaN
    ELSE IF ~IsInt(x) THEN x
    ELSE Val([n \in {x[1][1]}, d \in {x[2][1]} |->
         Val([rn \in {isqrt(n)}, rd \in {isqrt(d)},
              grid \in {IF n \div d < 2000 THEN SqrtGrid ELSE 10} |->
             IF rn * rn = n /\ rd * rd = d THEN Q(rn, rd)
             ELSE Q(isqrt((n \div d) * grid * grid + mulDiv(n % d, grid * grid, d)[1]), grid)])])

sqrt(x) == Val([va \in {x} |-> sqrtV(va)])

\* std::cos and std::sin for |angle| <= pi/2, by their series up to the
\* seventh power, rounded
cos(angle) ==
    IF ~IsFinite(angle) THEN NaN
    ELSE Val([a2 \in {round(dMul(angle, angle), 1000)} |->
         Val([a4 \in {round(dMul(a2, a2), 1000)} |->
         Val([a6 \in {round(dMul(a4, a2), 1000)} |->
            fl(dSub(dAdd(dSub(Q(1, 1), dDiv(a2, Q(2, 1))), dDiv(a4, Q(24, 1))),
                    dDiv(a6, Q(720, 1))))])])])

sin(angle) ==
    IF ~IsFinite(angle) THEN NaN
    ELSE Val([a2 \in {round(dMul(angle, angle), 1000)} |->
         Val([a4 \in {round(dMul(a2, a2), 1000)} |->
         Val([a6 \in {round(dMul(a4, a2), 1000)} |->
            fl(dMul(angle,
                    round(dSub(dAdd(dSub(Q(1, 1), dDiv(a2, Q(6, 1))), dDiv(a4, Q(120, 1))),
                               dDiv(a6, Q(5040, 1))), 1000)))])])])

RECURSIVE ipow(_, _)
ipow(b, n) == IF n = 0 THEN Q(1, 1) ELSE dMul(b, ipow(b, n - 1))

\* std::pow for a base near 1 and an exponent >= 0: the whole power of the
\* rounded base times the first-order term of the fractional power, rounded
pow(base, exponent) ==
    IF ~IsFinite(base) \/ ~IsFinite(exponent) THEN NaN
    ELSE Val([b \in {fl(base)} |->
         Val([n \in {exponent[1][1] \div exponent[2][1]} |->
            fl(dMul(fl(ipow(b, n)),
                    dAdd(Q(1, 1), dMul(dSub(exponent, Q(n, 1)), dSub(b, Q(1, 1))))))])])

\* floor(log2(n/d)) for n, d > 0
RECURSIVE ilog2(_, _, _)
ilog2(n, d, e) ==
    IF n < d THEN ilog2(2 * n, d, e - 1)
    ELSE IF n \div 2 >= d THEN ilog2(n \div 2, d, e + 1)
    ELSE e

\* <<quotient, remainder>> of (n * 2^k) by d, one bit at a time
RECURSIVE shiftDiv(_, _, _, _)
shiftDiv(q, r, d, k) ==
    IF k = 0 THEN <<q, r>>
    ELSE shiftDiv(2 * q + (IF 2 * r >= d THEN 1 ELSE 0), (2 * r) % d, d, k - 1)

\* n/d > 0 rounded to FloatBits significant bits, ties to even; `bias` is
\* the sign of what the exact value exceeds n/d by, and decides a tie
roundSig(n, d, bias) ==
    Val([e \in {Max2(ilog2(n, d, 0) - (FloatBits - 1), -FloatMinExp)} |->
    Val([D \in {IF e > 0 THEN d * Pow2(e) ELSE d} |->
    Val([qr \in {IF e >= 0 THEN <<n \div D, n % D>> ELSE shiftDiv(n \div d, n % d, d, -e)} |->
    Val([up \in {\/ 2 * qr[2] > D
                 \/ 2 * qr[2] = D /\ (bias > 0 \/ (bias = 0 /\ qr[1] % 2 = 1))} |->
    Val([m \in {IF up THEN qr[1] + 1 ELSE qr[1]} |->
        IF e >= 0 THEN Q(m * Pow2(e), 1) ELSE Q(m, Pow2(-e))])])])])])

\* static_cast<float>(x)
ToFloat(x) ==
    IF ~IsFinite(x) \/ x = Zero THEN x
    ELSE IF IsInt(x)
    THEN (IF x[1][1] < 0 THEN negV(roundSig(-x[1][1], x[2][1], 0))
          ELSE roundSig(x[1][1], x[2][1], 0))
    ELSE Val([n0 \in {x[1][1]}, d0 \in {x[2][1]} |->
             IF d0 = 0 THEN x
             ELSE IF n0 = 0 THEN Zero
             ELSE Val([lead \in {Q(n0, d0)} |->
                  Val([bias \in {IF ltV(lead, x) THEN 1 ELSE IF ltV(x, lead) THEN -1 ELSE 0} |->
                      IF lead[1][1] < 0 THEN negV(roundSig(-lead[1][1], lead[2][1], -bias))
                      ELSE roundSig(lead[1][1], lead[2][1], bias)])])])

----------------------------------------------------------------------------
(* Configuration files offered to the loader; a text file is the sequence  *)
(* of its characters.                                                      *)

\*   {
\*    "mass": 2,
\*    "S": 1,
\*    "CL_alpha": 5,
\*    "CD0": 0.5,
\*    "k": 0.25,
\*    "maxThrust": 4
\*   }
LegacyJson ==
    <<
      "{", "\n", " ", "\"", "m", "a", "s", "s", "\"", ":", " ", "2", ",",
      "\n", " ", "\"", "S", "\"", ":", " ", "1", ",", "\n", " ", "\"", "C",
      "L", "_", "a", "l", "p", "h", "a", "\"", ":", " ", "5", ",", "\n",
      " ", "\"", "C", "D", "0", "\"", ":", " ", "0", ".", "5", ",", "\n",
      " ", "\"", "k", "\"", ":", " ", "0", ".", "2", "5", ",", "\n", " ",
      "\"", "m", "a", "x", "T", "h", "r", "u", "s", "t", "\"", ":", " ",
      "4", "\n", "}" >>

\*   {"mass":2,"S":1,"CL_alpha":5,"CD0":0.5,"k":0.25,"maxThrust":4,"aeroDataFile":"t"}
TableJson ==
    <<
      "{", "\"", "m", "a", "s", "s", "\"", ":", "2", ",", "\"", "S", "\"",
      ":", "1", ",", "\"", "C", "L", "_", "a", "l", "p", "h", "a", "\"",
      ":", "5", ",", "\"", "C", "D", "0", "\"", ":", "0", ".", "5", ",",
      "\"", "k", "\"", ":", "0", ".", "2", "5", ",", "\"", "m", "a", "x",
      "T", "h", "r", "u", "s", "t", "\"", ":", "4", ",", "\"", "a", "e",
      "r", "o", "D", "a", "t", "a", "F", "i", "l", "e", "\"", ":", "\"",
      "t", "\"", "}" >>

\*   {"mass":2,"S":1,"CL_alpha":5,"CD0":0.5,"k":0.25,"maxThrust":4,"aeroDataFile":"g"}
MissingCsvJson ==
    <<
      "{", "\"", "m", "a", "s", "s", "\"", ":", "2", ",", "\"", "S", "\"",
      ":", "1", ",", "\"", "C", "L", "_", "a", "l", "p", "h", "a", "\"",
      ":", "5", ",", "\"", "C", "D", "0", "\"", ":", "0", ".", "5", ",",
      "\"", "k", "\"", ":", "0", ".", "2", "5", ",", "\"", "m", "a", "x",
      "T", "h", "r", "u", "s", "t", "\"", ":", "4", ",", "\"", "a", "e",
      "r", "o", "D", "a", "t", "a", "F", "i", "l", "e", "\"", ":", "\"",
      "g", "\"", "}" >>

\*   {"mass":2,"S":1,"CL_alpha":5,"CD0":0.5,"k":0.25,"maxThrust":4,"aeroDataFile":"b"}
BadCsvJson ==
    <<
      "{", "\"", "m", "a", "s", "s", "\"", ":", "2", ",", "\"", "S", "\"",
      ":", "1", ",", "\"", "C", "L", "_", "a", "l", "p", "h", "a", "\"",
      ":", "5", ",", "\"", "C", "D", "0", "\"", ":", "0", ".", "5", ",",
      "\"", "k", "\"", ":", "0", ".", "2", "5", ",", "\"", "m", "a", "x",
      "T", "h", "r", "u", "s", "t", "\"", ":", "4", ",", "\"", "a", "e",
      "r", "o", "D", "a", "t", "a", "F", "i", "l", "e", "\"", ":", "\"",
      "b", "\"", "}" >>

\*   {"mass":2,"CL_alpha":5,"CD0":0.5,"k":0.25,"maxThrust":4}
NoWingAreaJson ==
    <<
      "{", "\"", "m", "a", "s", "s", "\"", ":", "2", ",", "\"", "C", "L",
      "_", "a", "l", "p", "h", "a", "\"", ":", "5", ",", "\"", "C", "D",
      "0", "\"", ":", "0", ".", "5", ",", "\"", "k", "\"", ":", "0", ".",
      "2", "5", ",", "\"", "m", "a", "x", "T", "h", "r", "u", "s", "t",
      "\"", ":", "4", "}" >>

\*   {"mass":2,"S":1,"CL_alpha":5,"CD0":0.5,"k":x,"maxThrust":4}
BadDragFactorJson ==
    <<
      "{", "\"", "m", "a", "s", "s", "\"", ":", "2", ",", "\"", "S", "\"",
      ":", "1", ",", "\"", "C", "L", "_", "a", "l", "p", "h", "a", "\"",
      ":", "5", ",", "\"", "C", "D", "0", "\"", ":", "0", ".", "5", ",",
      "\"", "k", "\"", ":", "x", ",", "\"", "m", "a", "x", "T", "h", "r",
      "u", "s", "t", "\"", ":", "4", "}" >>

\*   {"mass":0,"S":1,"CL_alpha":5,"CD0":0.5,"k":0.25,"maxThrust":4}
MasslessJson ==
    <<
      "{", "\"", "m", "a", "s", "s", "\"", ":", "0", ",", "\"", "S", "\"",
      ":", "1", ",", "\"", "C", "L", "_", "a", "l", "p", "h", "a", "\"",
      ":", "5", ",", "\"", "C", "D", "0", "\"", ":", "0", ".", "5", ",",
      "\"", "k", "\"", ":", "0", ".", "2", "5", ",", "\"", "m", "a", "x",
      "T", "h", "r", "u", "s", "t", "\"", ":", "4", "}" >>

\* ui_state.aircraft_configs: the entry with an empty filepath stands for
\* the built-in default; `defect` says what is wrong with the file
----------------------------------------------------------------------------
(* Aircraft (src/src/aircraft/aircraft.hpp) and AircraftLoader              *)
(* (src/src/aircraft/aircraft_loader.hpp).  A shared_ptr<AeroDataTable> is  *)
(* nullptr or the data of the table it owns.                                *)

nullptr == [null |-> TRUE, data |-> <<>>]

make_shared(data) == [null |-> FALSE, data |-> data]

Aircraft(mass, S, CL_alpha, CD0, k, maxThrust) ==
    [mass |-> mass, S |-> S, CL_alpha |-> CL_alpha, CD0 |-> CD0, k |-> k,
     maxThrust |-> maxThrust, aeroTable |-> nullptr, aeroDataFile |-> <<>>]

\* the default constructor
DefaultAircraft == Aircraft(Q(120, 1), Q(16, 10), Q(57, 10), Q(25, 1000), Q(4, 100), Q(500, 1))

\* hasAeroTable that goes by the name of the data file
hasAeroTable_ByFileName(ac) == ac.aeroDataFile # <<>>

hasAeroTable(ac) == ~ac.aeroTable.null

\* std::string::find: the first position at or after `from` where `pat`
\* starts, 0 for npos (positions count from 1)
RECURSIVE Find(_, _, _)
Find(str, pat, from) ==
    IF from + Len(pat) - 1 > Len(str) THEN 0
    ELSE IF SubSeq(str, from, from + Len(pat) - 1) = pat THEN from
    ELSE Find(str, pat, from + 1)

Quoted(key) == <<"\"">> \o key \o <<"\"">>

RECURSIVE SkipChars(_, _, _)
SkipChars(str, i, set) ==
    IF i <= Len(str) /\ str[i] \in set THEN SkipChars(str, i + 1, set) ELSE i

RECURSIVE ScanUntil(_, _, _)
ScanUntil(str, i, set) ==
    IF i <= Len(str) /\ str[i] \notin set THEN ScanUntil(str, i + 1, set) ELSE i

RECURSIVE TrimRight(_, _)
TrimRight(str, set) ==
    IF str # <<>> /\ str[Len(str)] \in set THEN TrimRight(SubSeq(str, 1, Len(str) - 1), set) ELSE str

\* ok = FALSE stands for the std::runtime_error thrown; `what` is its message
parseDouble(json, key) ==
    Val([keyPos \in {Find(json, Quoted(key), 1)} |->
        IF keyPos = 0
        THEN [ok |-> FALSE, value |-> Zero, what |-> <<"Key not found in JSON: ">> \o key]
        ELSE Val([colonPos \in {Find(json, <<":">>, keyPos)} |->
        IF colonPos = 0
        THEN [ok |-> FALSE, value |-> Zero, what |-> <<"Invalid JSON format for key: ">> \o key]
        ELSE Val([valueStart \in {SkipChars(json, colonPos + 1, {" ", "\t", "\n"})} |->
             Val([valueEnd \in {ScanUntil(json, valueStart, {",", "}", "\n"})} |->
             Val([valueStr \in {TrimRight(SubSeq(json, valueStart, valueEnd - 1),
                                          {" ", "\t", "\r"})} |->
             Val([v \in {stod(valueStr)} |->
        IF ~v.ok
        THEN [ok |-> FALSE, value |-> Zero,
              what |-> <<"Failed to parse value for key '">> \o key \o <<"': ">> \o valueStr]
        ELSE [ok |-> TRUE, value |-> v.value, what |-> <<>>]])])])])])])

parseString(json, key) ==
    Val([keyPos \in {Find(json, Quoted(key), 1)} |->
        IF keyPos = 0 THEN <<>>
        ELSE Val([colonPos \in {Find(json, <<":">>, keyPos)} |->
        IF colonPos = 0 THEN <<>>
        ELSE Val([valueStart \in {SkipChars(json, colonPos + 1, {" ", "\t", "\n"})} |->
        IF valueStart > Len(json) \/ json[valueStart] # "\"" THEN <<>>
        ELSE Val([valueEnd \in {ScanUntil(json, valueStart + 1, {"\""})} |->
        IF valueEnd > Len(json) THEN <<>>
        ELSE SubSeq(json, valueStart + 1, valueEnd - 1)])])])])

RequiredKeys ==
    << <<"m", "a", "s", "s">>, <<"S">>, <<"C", "L", "_", "a", "l", "p", "h", "a">>,
       <<"C", "D", "0">>, <<"k">>, <<"m", "a", "x", "T", "h", "r", "u", "s", "t">> >>

aeroDataFileKey == <<"a", "e", "r", "o", "D", "a", "t", "a", "F", "i", "l", "e">>

\* the first required key, in the order of lines 46-51, whose parseDouble throws
RECURSIVE firstFailure(_, _)
firstFailure(json, i) ==
    IF i > Len(RequiredKeys) THEN 0
    ELSE IF ~parseDouble(json, RequiredKeys[i]).ok THEN i
    ELSE firstFailure(json, i + 1)

\* the files on disk, by name (a name is held as a sequence, whole or by
\* character): the configurations and, beside them, the aerodynamic data
\* files they name
Disk(name) ==
    IF name = <<"legacy.json">> THEN TextFile(LegacyJson)
    ELSE IF name = <<"table.json">> THEN TextFile(TableJson)
    ELSE IF name = <<"missingcsv.json">> THEN TextFile(MissingCsvJson)
    ELSE IF name = <<"badcsv.json">> THEN TextFile(BadCsvJson)
    ELSE IF name = <<"massless.json">> THEN TextFile(MasslessJson)
    ELSE IF name = <<"nowingarea.json">> THEN TextFile(NoWingAreaJson)
    ELSE IF name = <<"baddragfactor.json">> THEN TextFile(BadDragFactorJson)
    ELSE IF name = <<"t">> THEN TextFile(<<HeaderRow, Row0, Row5, Row10>>)
    ELSE IF name = <<"b">> THEN TextFile(<<Row0, HeaderRow, Row5>>)
    ELSE Unreadable

\* the outcomes of loadFromJSON: the Aircraft returned, or the exception
\* with the text of what()
loadFromJSON(filepath) ==
    Val([file \in {Disk(filepath)} |->
        IF ~file.readable
        THEN { [status |-> "error",
                what |-> <<"Failed to open aircraft config file: ">> \o filepath] }
        ELSE Val([content \in {file.lines} |->
             Val([bad \in {firstFailure(content, 1)} |->
        IF bad # 0
        THEN { [status |-> "error", what |-> parseDouble(content, RequiredKeys[bad]).what] }
        ELSE Val([ac \in {Aircraft(parseDouble(content, RequiredKeys[1]).value,
                                   parseDouble(content, RequiredKeys[2]).value,
                                   parseDouble(content, RequiredKeys[3]).value,
                                   parseDouble(content, RequiredKeys[4]).value,
                                   parseDouble(content, RequiredKeys[5]).value,
                                   parseDouble(content, RequiredKeys[6]).value)},
                  aeroFile \in {parseString(content, aeroDataFileKey)} |->
        IF aeroFile = <<>>
        THEN { [status |-> "ok", aircraft |-> ac] }
        ELSE { [status |-> "ok",
                aircraft |-> [ac EXCEPT !.aeroDataFile = aeroFile,
                                        !.aeroTable = IF r.status = "ok"
                                                      THEN make_shared(r.data)
                                                      ELSE nullptr]]
                : r \in loadFromCSV(Disk(aeroFile)) }])])])])

----------------------------------------------------------------------------
(* The entries of the aircraft selector *)

\* UIState::aircraft_configs; `defect` is what is wrong with the file the
\* entry names: nothing, the required key that is missing or malformed, or
\* the file itself
aircraft_configs ==
    << [name |-> "Default", filepath |-> <<>>, defect |-> <<>>],
       [name |-> "Legacy", filepath |-> <<"legacy.json">>, defect |-> <<>>],
       [name |-> "Table", filepath |-> <<"table.json">>, defect |-> <<>>],
       [name |-> "MissingCsv", filepath |-> <<"missingcsv.json">>, defect |-> <<>>],
       [name |-> "BadCsv", filepath |-> <<"badcsv.json">>, defect |-> <<>>],
       [name |-> "Massless", filepath |-> <<"massless.json">>, defect |-> <<>>],
       [name |-> "NoWingArea", filepath |-> <<"nowingarea.json">>, defect |-> <<"S">>],
       [name |-> "BadDragFactor", filepath |-> <<"baddragfactor.json">>, defect |-> <<"k">>],
       [name |-> "Gone", filepath |-> <<"gone.json">>, defect |-> <<"gone.json">>] >>

\* UIState()
UIState == [load_message |-> <<>>, load_error |-> FALSE, selected_aircraft |-> 1]

\* the "Load Selected" button with a loader that stores each field into the
\* current Aircraft as soon as it is parsed
LoadSelected_Partial(s, ui) ==
    LET cfg == aircraft_configs[ui.selected_aircraft]
        content == Disk(cfg.filepath).lines
        bad == firstFailure(content, 1)
        field(i, old) == IF i < bad THEN parseDouble(content, RequiredKeys[i]).value ELSE old
        partial == IF ~Disk(cfg.filepath).readable THEN s.aircraft
                   ELSE [s.aircraft EXCEPT !.mass = field(1, s.aircraft.mass),
                                           !.S = field(2, s.aircraft.S),
                                           !.CL_alpha = field(3, s.aircraft.CL_alpha),
                                           !.CD0 = field(4, s.aircraft.CD0),
                                           !.k = field(5, s.aircraft.k),
                                           !.maxThrust = field(6, s.aircraft.maxThrust)]
    IN  IF cfg.filepath = <<>>
        THEN { [state |-> [s EXCEPT !.aircraft = DefaultAircraft],
                ui_state |-> [ui EXCEPT !.load_message = <<"Loaded: ", cfg.name>>,
                                        !.load_error = FALSE]] }
        ELSE { IF r.status = "ok"
               THEN [state |-> [s EXCEPT !.aircraft = r.aircraft],
                     ui_state |-> [ui EXCEPT !.load_message = <<"Loaded: ", cfg.name>>,
                                             !.load_error = FALSE]]
               ELSE [state |-> [s EXCEPT !.aircraft = partial],
                     ui_state |-> [ui EXCEPT !.load_message = <<"Error: ">> \o r.what,
                                             !.load_error = TRUE]]
               : r \in loadFromJSON(cfg.filepath) }

\* the "Load Selected" button of renderControlPanel: the outcomes
LoadSelected(s, ui) ==
    LET cfg == aircraft_configs[ui.selected_aircraft]
    IN  IF cfg.filepath = <<>>
        THEN { [state |-> [s EXCEPT !.aircraft = DefaultAircraft],
                ui_state |-> [ui EXCEPT !.load_message = <<"Loaded: ", cfg.name>>,
                                        !.load_error = FALSE]] }
        ELSE { IF r.status = "ok"
               THEN [state |-> [s EXCEPT !.aircraft = r.aircraft],
                     ui_state |-> [ui EXCEPT !.load_message = <<"Loaded: ", cfg.name>>,
                                             !.load_error = FALSE]]
               ELSE [state |-> s,
                     ui_state |-> [ui EXCEPT !.load_message = <<"Error: ">> \o r.what,
                                             !.load_error = TRUE]]
               : r \in loadFromJSON(cfg.filepath) }

----------------------------------------------------------------------------
VARIABLES
    pid,        \* the PIDController object
    ret,        \* value returned by the latest update
    deriv,      \* the local `derivative` of the latest update
    lastOp,     \* "construct", "update", "reset" or "setOutputLimits"
    calls,      \* arguments of the updates since construction or the last reset
    touched,    \* setOutputLimits was called since construction or the last reset
    fresh,      \* a second instance, constructed when pid was reset
    freshRet,   \* value returned by the latest update of fresh
    tracking,   \* fresh exists
    nUpdates, nResets, nLimits,     \* calls of update, reset, setOutputLimits
    position, velocity,     \* integrated with steps of dt
    pos2, vel2,             \* integrated from the same start with steps of dt/2
    prePos, preVel,         \* position and velocity before the latest step of dt
    acceleration, dt,
    nFull, nHalf,
    csvFile,                \* the file given to loadFromCSV
    csvStatus,              \* "ok", or the exception loadFromCSV threw
    table,                  \* the data of the table it returned
    qAlpha, qWhich, qResult,    \* the latest getCL / getCD call and its result
    nQueries,
    state,                  \* the SimulationState object
    ui_state,               \* the UIState object
    locals,                 \* what the latest updatePhysics computed on the way
    simOp,                  \* the latest operation on state and ui_state
    ticks,                  \* position after each tick that ran since the last reset
    nTicks, nEdits, nLoads, \* calls of updatePhysics, control edits, loads
    atmCalls                \* <<h, value returned>> of each getTemperature call

pidVars == <<pid, ret, deriv, lastOp, calls, touched, fresh, freshRet, tracking,
             nUpdates, nResets, nLimits>>

rkVars == <<position, velocity, pos2, vel2, prePos, preVel, acceleration, dt, nFull, nHalf>>

aeroVars == <<csvFile, csvStatus, table, qAlpha, qWhich, qResult, nQueries>>

simVars == <<state, ui_state, locals, simOp, ticks, nTicks, nEdits, nLoads>>

atmVars == <<atmCalls>>

vars == <<pidVars, rkVars, aeroVars, simVars, atmVars>>

InitPID(gains, limits) ==
    /\ \E g \in gains, l \in limits :
          pid = PIDController(g[1], g[2], g[3], l[1], l[2])
    /\ ret = Zero
    /\ deriv = Zero
    /\ lastOp = "construct"
    /\ calls = <<>>
    /\ touched = FALSE
    /\ fresh = PIDController(Zero, Zero, Zero, Zero, Zero)
    /\ freshRet = Zero
    /\ tracking = FALSE
    /\ nUpdates = 0
    /\ nResets = 0
    /\ nLimits = 0

InitRK(positions, velocities, accelerations, steps) ==
    /\ position \in positions
    /\ velocity \in velocities
    /\ acceleration \in accelerations
    /\ dt \in steps
    /\ pos2 = position
    /\ vel2 = velocity
    /\ prePos = position
    /\ preVel = velocity
    /\ nFull = 0
    /\ nHalf = 0

InitAero(files) ==
    /\ csvFile \in files
    /\ \E r \in loadFromCSV(csvFile) :
          /\ csvStatus = r.status
          /\ table = r.data
    /\ qAlpha = Zero
    /\ qWhich = "none"
    /\ qResult = Zero
    /\ nQueries = 0

----------------------------------------------------------------------------
(* The atmosphere (src/src/atmosphere.cpp, constants of                    *)
(* src/FlightDynamics/src/atmosphere.hpp).                                 *)

T0 == Q(28815, 100)

p0 == Q(101325, 1)

L == Q(65, 10000)

R == Q(287, 1)

g == Q(980665, 100000)

\* getTemperature with the lapse added instead of subtracted
getTemperature_Rising(h) == dAdd(T0, dMul(L, h))

getTemperature(h) == dSub(T0, dMul(L, h))

getPressure(h) ==
    fl(dMul(p0, pow(dSub(Q(1, 1), dDiv(dMul(L, h), T0)), dDiv(g, dMul(R, L)))))

getDensity(h) ==
    Val([p \in {getPressure(h)}, T \in {fl(getTemperature(h))} |->
        fl(dDiv(p, fl(dMul(R, T))))])

----------------------------------------------------------------------------
(* Coefficients and force magnitudes, src/src/aerodynamics/aero.cpp.  The  *)
(* two overloads of calcCL and calcCD are told apart by a suffix.          *)

\* a * b, rounded
fMul(a, b) == fl(dMul(a, b))

\* calcCL(double alpha, double CL_alpha)
calcCL(alpha, CL_alpha) == fMul(CL_alpha, alpha)

\* calcCD(double CL, double CD0, double k)
calcCD(CL, CD0, k) == fl(dAdd(CD0, fMul(fMul(k, CL), CL)))

\* calcCL(double alpha, const AeroDataTable *table)
calcCL_table(alpha, aeroTable) ==
    IF ~aeroTable.null /\ aeroTable.data # <<>> THEN getCL(aeroTable.data, alpha) ELSE Zero

\* calcCD(double alpha, const AeroDataTable *table)
calcCD_table(alpha, aeroTable) ==
    IF ~aeroTable.null /\ aeroTable.data # <<>> THEN getCD(aeroTable.data, alpha) ELSE Zero

calcLift(rho, V, S, CL) == fMul(fMul(fMul(fMul(fMul(Q(1, 2), rho), V), V), S), CL)

calcDrag(rho, V, S, CD) == fMul(fMul(fMul(fMul(fMul(Q(1, 2), rho), V), V), S), CD)

calcWeight(mass, gravity) == fMul(mass, gravity)

calcThrust(throttle, maxThrust) == fMul(throttle, maxThrust)

----------------------------------------------------------------------------
(* The remaining operations of Vec2, src/FlightDynamics/src/vec2.hpp. *)

\* Vec2::operator/(double)
vOver(u, scalar) == Val([a \in {u}, k \in {scalar} |-> <<fl(dDiv(a[1], k)), fl(dDiv(a[2], k))>>])

magnitude(u) == Val([a \in {u} |-> sqrt(dAdd(dMul(a[1], a[1]), dMul(a[2], a[2])))])

\* the literals 1e-9 and 1e-6
Tiny9 == <<<<0, 10>>, <<1>>>>

Tiny6 == <<<<0, 10000>>, <<1>>>>

normalized(u) ==
    Val([a \in {u}, mag \in {magnitude(u)} |->
        IF dLt(mag, Tiny9) THEN Vec2(Zero, Zero)
        ELSE Vec2(fl(dDiv(a[1], mag)), fl(dDiv(a[2], mag)))])

rotated(u, angle) ==
    Val([a \in {u}, cs \in {<<cos(angle), sin(angle)>>} |->
        Vec2(fl(dSub(dMul(a[1], cs[1]), dMul(a[2], cs[2]))),
             fl(dAdd(dMul(a[1], cs[2]), dMul(a[2], cs[1]))))])

----------------------------------------------------------------------------
(* SimulationState, src/src/simulation/simulation_state.hpp.  The float    *)
(* fields hold float values; maxPathPoints is the capacity the object was  *)
(* given.                                                                  *)

SimulationState(aircraft, maxPathPoints) ==
    [aircraft |-> aircraft,
     position |-> Vec2(Zero, Zero),
     velocity |-> Vec2(Zero, Zero),
     t |-> Zero,
     dt |-> Q(16, 1000),
     throttle |-> Zero,
     elevator |-> Zero,
     pitch_deg |-> Zero,
     pitch_rate |-> Zero,
     alpha_deg |-> Zero,
     paused |-> FALSE,
     reset_requested |-> FALSE,
     autopilot_speed |-> FALSE,
     speed_setpoint |-> Q(40, 1),
     pid_kp |-> ToFloat(Q(2, 100)),
     pid_ki |-> ToFloat(Q(1, 1000)),
     pid_kd |-> ToFloat(Q(1, 100)),
     speed_pid |-> PIDController(ToFloat(Q(2, 100)), ToFloat(Q(1, 1000)), ToFloat(Q(1, 100)),
                                 Zero, Q(1, 1)),
     prev_pid_kp |-> ToFloat(Q(2, 100)),
     prev_pid_ki |-> ToFloat(Q(1, 1000)),
     prev_pid_kd |-> ToFloat(Q(1, 100)),
     autopilot_altitude |-> FALSE,
     altitude_setpoint |-> Q(100, 1),
     alt_pid_kp |-> ToFloat(Q(1, 10)),
     alt_pid_ki |-> ToFloat(Q(1, 1000)),
     alt_pid_kd |-> ToFloat(Q(1, 2)),
     altitude_pid |-> PIDController(ToFloat(Q(1, 10)), ToFloat(Q(1, 1000)), ToFloat(Q(1, 2)),
                                    Q(-10, 1), Q(15, 1)),
     prev_alt_pid_kp |-> ToFloat(Q(1, 10)),
     prev_alt_pid_ki |-> ToFloat(Q(1, 1000)),
     prev_alt_pid_kd |-> ToFloat(Q(1, 2)),
     flightPath |-> <<>>,
     maxPathPoints |-> maxPathPoints,
     F_thrust_viz |-> Vec2(Zero, Zero),
     F_drag_viz |-> Vec2(Zero, Zero),
     F_lift_viz |-> Vec2(Zero, Zero),
     F_weight_viz |-> Vec2(Zero, Zero)]

\* reset that leaves the flight path as it was
resetState_KeepPath(s) ==
    [s EXCEPT !.position = Vec2(Zero, Zero),
              !.velocity = Vec2(Zero, Zero),
              !.throttle = ToFloat(Q(3, 10)),
              !.elevator = Zero,
              !.pitch_deg = Q(5, 1),
              !.pitch_rate = Zero,
              !.alpha_deg = Zero,
              !.t = Zero,
              !.speed_pid = reset(s.speed_pid),
              !.altitude_pid = reset(s.altitude_pid),
              !.reset_requested = FALSE]

\* SimulationState::reset
resetState(s) ==
    [s EXCEPT !.position = Vec2(Zero, Zero),
              !.velocity = Vec2(Zero, Zero),
              !.throttle = ToFloat(Q(3, 10)),
              !.elevator = Zero,
              !.pitch_deg = Q(5, 1),
              !.pitch_rate = Zero,
              !.alpha_deg = Zero,
              !.t = Zero,
              !.flightPath = <<>>,
              !.speed_pid = reset(s.speed_pid),
              !.altitude_pid = reset(s.altitude_pid),
              !.reset_requested = FALSE]

----------------------------------------------------------------------------
(* updatePhysics, src/src/simulation/physics_update.hpp, in the order of   *)
(* its statements.  Each part takes the state and yields the state after.  *)

\* speed autopilot whose output does not reach the throttle
speedAutopilot_ManualThrottle(lib, s, speed) ==
    IF ~s.autopilot_speed THEN s
    ELSE Val([s1 \in {IF s.pid_kp # s.prev_pid_kp \/ s.pid_ki # s.prev_pid_ki \/ s.pid_kd # s.prev_pid_kd
              THEN [s EXCEPT !.speed_pid = PIDController(s.pid_kp, s.pid_ki, s.pid_kd,
                                                         Zero, Q(1, 1)),
                             !.prev_pid_kp = s.pid_kp,
                             !.prev_pid_ki = s.pid_ki,
                             !.prev_pid_kd = s.pid_kd]
              ELSE s} |->
         Val([u \in {update(lib, s1.speed_pid, s1.speed_setpoint, speed, s1.dt)} |->
            [s1 EXCEPT !.speed_pid = u.pid]])])

\* speed autopilot that builds a new controller on every tick
speedAutopilot_AlwaysReconstruct(lib, s, speed) ==
    IF ~s.autopilot_speed THEN s
    ELSE Val([s1 \in {[s EXCEPT !.speed_pid = PIDController(s.pid_kp, s.pid_ki, s.pid_kd,
                                                           Zero, Q(1, 1)),
                               !.prev_pid_kp = s.pid_kp,
                               !.prev_pid_ki = s.pid_ki,
                               !.prev_pid_kd = s.pid_kd]} |->
         Val([u \in {update(lib, s1.speed_pid, s1.speed_setpoint, speed, s1.dt)} |->
            [s1 EXCEPT !.speed_pid = u.pid, !.throttle = ToFloat(u.output)]])])

\* lines 24-34: the speed autopilot, given the speed measured at line 21
speedAutopilot(lib, s, speed) ==
    IF ~s.autopilot_speed THEN s
    ELSE Val([s1 \in {IF s.pid_kp # s.prev_pid_kp \/ s.pid_ki # s.prev_pid_ki \/ s.pid_kd # s.prev_pid_kd
              THEN [s EXCEPT !.speed_pid = PIDController(s.pid_kp, s.pid_ki, s.pid_kd,
                                                         Zero, Q(1, 1)),
                             !.prev_pid_kp = s.pid_kp,
                             !.prev_pid_ki = s.pid_ki,
                             !.prev_pid_kd = s.pid_kd]
              ELSE s} |->
         Val([u \in {update(lib, s1.speed_pid, s1.speed_setpoint, speed, s1.dt)} |->
            [s1 EXCEPT !.speed_pid = u.pid, !.throttle = ToFloat(u.output)]])])

\* lines 37-47: the altitude autopilot, given the altitude read at line 20
altitudeAutopilot(lib, s, altitude) ==
    IF ~s.autopilot_altitude THEN s
    ELSE Val([s1 \in {IF s.alt_pid_kp # s.prev_alt_pid_kp \/ s.alt_pid_ki # s.prev_alt_pid_ki
                 \/ s.alt_pid_kd # s.prev_alt_pid_kd
              THEN [s EXCEPT !.altitude_pid = PIDController(s.alt_pid_kp, s.alt_pid_ki,
                                                            s.alt_pid_kd, Q(-10, 1), Q(15, 1)),
                             !.prev_alt_pid_kp = s.alt_pid_kp,
                             !.prev_alt_pid_ki = s.alt_pid_ki,
                             !.prev_alt_pid_kd = s.alt_pid_kd]
              ELSE s} |->
         Val([u \in {update(lib, s1.altitude_pid, s1.altitude_setpoint, altitude, s1.dt)} |->
            [s1 EXCEPT !.altitude_pid = u.pid, !.alpha_deg = ToFloat(u.output)]])])

\* lines 56-68: <<CL, CD>>
coefficients(ac, alpha) ==
    IF hasAeroTable(ac)
    THEN <<calcCL_table(alpha, ac.aeroTable), calcCD_table(alpha, ac.aeroTable)>>
    ELSE Val([CL \in {calcCL(alpha, ac.CL_alpha)} |-> <<CL, calcCD(CL, ac.CD0, ac.k)>>])

\* force computation that normalizes the velocity at every speed
forces_AlwaysNormalized(s, altitude, speed) ==
    Val([velocityDir \in {normalized(s.velocity)} |->
    Val([alpha \in {fl(dDiv(dMul(s.alpha_deg, M_PI), Q(180, 1)))} |->
    Val([rho \in {getDensity(stdmax(Zero, altitude))} |->
    Val([C \in {coefficients(s.aircraft, alpha)} |->
    Val([m \in {[L_mag |-> calcLift(rho, speed, s.aircraft.S, C[1]),
          D_mag |-> calcDrag(rho, speed, s.aircraft.S, C[2]),
          W_mag |-> calcWeight(s.aircraft.mass, g),
          T_mag |-> calcThrust(s.throttle, s.aircraft.maxThrust)]} |->
    Val([F \in {[F_thrust |-> vTimes(rotated(velocityDir, alpha), m.T_mag),
          F_drag |-> vTimes(velocityDir, dNeg(m.D_mag)),
          F_lift |-> vTimes(rotated(velocityDir, dDiv(M_PI, Q(2, 1))), m.L_mag),
          F_weight |-> Vec2(Zero, dNeg(m.W_mag))]} |->
    Val([F_net \in {vPlus(vPlus(vPlus(F.F_thrust, F.F_drag), F.F_lift), F.F_weight)} |->
        [altitude |-> altitude, speed |-> speed, throttle |-> s.throttle,
         velocityDir |-> velocityDir, alpha |-> alpha, rho |-> rho,
         CL |-> C[1], CD |-> C[2],
         L_mag |-> m.L_mag, D_mag |-> m.D_mag, W_mag |-> m.W_mag, T_mag |-> m.T_mag,
         F_thrust |-> F.F_thrust, F_drag |-> F.F_drag, F_lift |-> F.F_lift,
         F_weight |-> F.F_weight, F_net |-> F_net,
         acceleration |-> vOver(F_net, s.aircraft.mass)]])])])])])])])

\* lines 49-84: the locals of the force computation
forces(s, altitude, speed) ==
    Val([velocityDir \in {IF dGt(speed, Tiny6) THEN normalized(s.velocity) ELSE Vec2(Q(1, 1), Zero)} |->
    Val([alpha \in {fl(dDiv(dMul(s.alpha_deg, M_PI), Q(180, 1)))} |->
    Val([rho \in {getDensity(stdmax(Zero, altitude))} |->
    Val([C \in {coefficients(s.aircraft, alpha)} |->
    Val([m \in {[L_mag |-> calcLift(rho, speed, s.aircraft.S, C[1]),
          D_mag |-> calcDrag(rho, speed, s.aircraft.S, C[2]),
          W_mag |-> calcWeight(s.aircraft.mass, g),
          T_mag |-> calcThrust(s.throttle, s.aircraft.maxThrust)]} |->
    Val([F \in {[F_thrust |-> vTimes(rotated(velocityDir, alpha), m.T_mag),
          F_drag |-> IF dGt(speed, Tiny6) THEN vTimes(velocityDir, dNeg(m.D_mag))
                     ELSE Vec2(Zero, Zero),
          F_lift |-> vTimes(rotated(velocityDir, dDiv(M_PI, Q(2, 1))), m.L_mag),
          F_weight |-> Vec2(Zero, dNeg(m.W_mag))]} |->
    Val([F_net \in {vPlus(vPlus(vPlus(F.F_thrust, F.F_drag), F.F_lift), F.F_weight)} |->
        [altitude |-> altitude, speed |-> speed, throttle |-> s.throttle,
         velocityDir |-> velocityDir, alpha |-> alpha, rho |-> rho,
         CL |-> C[1], CD |-> C[2],
         L_mag |-> m.L_mag, D_mag |-> m.D_mag, W_mag |-> m.W_mag, T_mag |-> m.T_mag,
         F_thrust |-> F.F_thrust, F_drag |-> F.F_drag, F_lift |-> F.F_lift,
         F_weight |-> F.F_weight, F_net |-> F_net,
         acceleration |-> vOver(F_net, s.aircraft.mass)]])])])])])])])

\* ground constraint that comes to rest whatever the throttle
groundConstraint_AnyThrottle(s) ==
    IF dLt(s.position[2], Zero)
    THEN Val([s1 \in {[s EXCEPT !.position = Vec2(s.position[1], Zero),
                        !.velocity = IF dLt(s.velocity[2], Zero)
                                     THEN Vec2(s.velocity[1], Zero)
                                     ELSE s.velocity]} |->
            IF dLt(magnitude(s1.velocity), Q(1, 10))
            THEN [s1 EXCEPT !.velocity = Vec2(Zero, Zero)]
            ELSE s1])
    ELSE s

\* lines 96-103
groundConstraint(s) ==
    IF dLt(s.position[2], Zero)
    THEN Val([s1 \in {[s EXCEPT !.position = Vec2(s.position[1], Zero),
                        !.velocity = IF dLt(s.velocity[2], Zero)
                                     THEN Vec2(s.velocity[1], Zero)
                                     ELSE s.velocity]} |->
            IF dLt(magnitude(s1.velocity), Q(1, 10)) /\ dLt(s1.throttle, Q(1, 100))
            THEN [s1 EXCEPT !.velocity = Vec2(Zero, Zero)]
            ELSE s1])
    ELSE s

\* the point recorded for a position
FlightPoint(p) == <<ToFloat(p[1]), ToFloat(p[2])>>

\* history that drops the newest entry when full
recordPath_DropNewest(s) ==
    IF Len(s.flightPath) < s.maxPathPoints
    THEN [s EXCEPT !.flightPath = Append(s.flightPath, FlightPoint(s.position))]
    ELSE [s EXCEPT !.flightPath = Append(SubSeq(s.flightPath, 1, Len(s.flightPath) - 1),
                                         FlightPoint(s.position))]

\* lines 106-114
recordPath(s) ==
    IF Len(s.flightPath) < s.maxPathPoints
    THEN [s EXCEPT !.flightPath = Append(s.flightPath, FlightPoint(s.position))]
    ELSE [s EXCEPT !.flightPath = Append(Tail(s.flightPath), FlightPoint(s.position))]

\* the locals kept of a tick that did nothing
NoLocals == [ran |-> FALSE]

\* a tick that takes the weight from the vector stored by the tick before
runTick_StoredWeight(libs, s) ==
    Val([altitude \in {s.position[2]}, speed \in {magnitude(s.velocity)} |->
    Val([s1 \in {speedAutopilot(libs[1], s, speed)} |->
    Val([s2 \in {altitudeAutopilot(libs[2], s1, altitude)} |->
    Val([f \in {forces(s2, altitude, speed)} |->
    Val([pv \in {integrateRK4(s2.position, s2.velocity,
                              vOver(vPlus(vPlus(vPlus(f.F_thrust, f.F_drag), f.F_lift),
                                          s2.F_weight_viz),
                                    s2.aircraft.mass),
                              s2.dt)} |->
    Val([s3 \in {[s2 EXCEPT !.F_thrust_viz = f.F_thrust,
                    !.F_drag_viz = f.F_drag,
                    !.F_lift_viz = f.F_lift,
                    !.F_weight_viz = f.F_weight,
                    !.position = pv[1],
                    !.velocity = pv[2]]} |->
    Val([s4 \in {recordPath(groundConstraint(s3))} |->
        [state |-> [s4 EXCEPT !.t = dAdd(s4.t, s4.dt)],
         locals |-> [ran |-> TRUE, f |-> f, integrated |-> pv]]])])])])])])])

\* lines 20-116: a tick that is not paused; the state after it, the locals
\* of the force computation and the <<position, velocity>> that integrateRK4
\* left; libs are the builds of the two controllers' clamps
runTick(libs, s) ==
    Val([altitude \in {s.position[2]}, speed \in {magnitude(s.velocity)} |->
    Val([s1 \in {speedAutopilot(libs[1], s, speed)} |->
    Val([s2 \in {altitudeAutopilot(libs[2], s1, altitude)} |->
    Val([f \in {forces(s2, altitude, speed)} |->
    Val([pv \in {integrateRK4(s2.position, s2.velocity, f.acceleration, s2.dt)} |->
    Val([s3 \in {[s2 EXCEPT !.F_thrust_viz = f.F_thrust,
                    !.F_drag_viz = f.F_drag,
                    !.F_lift_viz = f.F_lift,
                    !.F_weight_viz = f.F_weight,
                    !.position = pv[1],
                    !.velocity = pv[2]]} |->
    Val([s4 \in {recordPath(groundConstraint(s3))} |->
        [state |-> [s4 EXCEPT !.t = dAdd(s4.t, s4.dt)],
         locals |-> [ran |-> TRUE, f |-> f, integrated |-> pv]]])])])])])])])

\* updatePhysics that lets the autopilots run while paused
updatePhysics_PausedAutopilot(libs, s) ==
    IF s.paused
    THEN [state |-> altitudeAutopilot(libs[2],
                                      speedAutopilot(libs[1], s, magnitude(s.velocity)),
                                      s.position[2]),
          locals |-> NoLocals]
    ELSE runTick(libs, s)

\* updatePhysics whose clock runs while paused
updatePhysics_PausedClock(libs, s) ==
    IF s.paused
    THEN [state |-> [s EXCEPT !.t = dAdd(s.t, s.dt)], locals |-> NoLocals]
    ELSE runTick(libs, s)

\* updatePhysics
updatePhysics(libs, s) ==
    IF s.paused THEN [state |-> s, locals |-> NoLocals] ELSE runTick(libs, s)

\* capacity of the flight-path history in the model's runs
PathCapacity == 2

InitSim(aircraft, steps, positions, velocities, autopilots, pauses) ==
    /\ \E ac \in aircraft, h \in steps, p \in positions, v \in velocities, on \in autopilots,
          paused \in pauses :
          state = [SimulationState(ac, PathCapacity) EXCEPT !.dt = h,
                                                            !.position = p,
                                                            !.velocity = v,
                                                            !.paused = paused,
                                                            !.autopilot_speed = on,
                                                            !.autopilot_altitude = on]
    /\ ui_state = UIState
    /\ locals = NoLocals
    /\ simOp = "construct"
    /\ ticks = <<>>
    /\ nTicks = 0
    /\ nEdits = 0
    /\ nLoads = 0

\* no call of getTemperature was made
InitAtmos == atmCalls = <<>>

----------------------------------------------------------------------------
(* The PID specification: one controller, any order of calls. *)

Init ==
    /\ InitPID(Gains, Limits)
    /\ InitRK({Vec2(Zero, Zero)}, {Vec2(Zero, Zero)}, {Vec2(Zero, Zero)}, {Zero})
    /\ InitAero({Unreadable})
    /\ InitSim({DefaultAircraft}, {Q(16, 1000)}, {Vec2(Zero, Zero)}, {Vec2(Zero, Zero)}, {FALSE},
               {FALSE})
    /\ InitAtmos

nCalls == nUpdates + nResets + nLimits

Update ==
    /\ nCalls < MaxCalls
    /\ \E lib \in Libs(pid), setpoint \in Setpoints, measurement \in Measurements, step \in TimeSteps :
          \E r \in { update(lib, pid, setpoint, measurement, step) },
             f \in { IF tracking THEN update(lib, fresh, setpoint, measurement, step)
                     ELSE [pid |-> fresh, output |-> freshRet] } :
              /\ pid' = r.pid
              /\ ret' = r.output
              /\ deriv' = r.derivative
              /\ calls' = Append(calls, <<setpoint, measurement, step>>)
              /\ fresh' = f.pid
              /\ freshRet' = f.output
    /\ lastOp' = "update"
    /\ nUpdates' = nUpdates + 1
    /\ UNCHANGED <<touched, tracking, nResets, nLimits, rkVars, aeroVars, simVars, atmVars>>

Reset ==
    /\ nCalls < MaxCalls
    /\ pid' = reset(pid)
    /\ fresh' = PIDController(pid.Kp, pid.Ki, pid.Kd, pid.output_min, pid.output_max)
    /\ tracking' = TRUE
    /\ calls' = <<>>
    /\ touched' = FALSE
    /\ lastOp' = "reset"
    /\ nResets' = nResets + 1
    /\ UNCHANGED <<ret, deriv, freshRet, nUpdates, nLimits, rkVars, aeroVars, simVars, atmVars>>

SetOutputLimits ==
    /\ nCalls < MaxCalls
    /\ \E l \in NewLimits :
          /\ pid' = setOutputLimits(pid, l[1], l[2])
          /\ fresh' = IF tracking THEN setOutputLimits(fresh, l[1], l[2]) ELSE fresh
    /\ touched' = TRUE
    /\ lastOp' = "setOutputLimits"
    /\ nLimits' = nLimits + 1
    /\ UNCHANGED <<ret, deriv, calls, freshRet, tracking, nUpdates, nResets, rkVars, aeroVars, simVars, atmVars>>

Next == Update \/ Reset \/ SetOutputLimits

Spec == Init /\ [][Next]_vars

----------------------------------------------------------------------------
(* The integrator specification: from one start and with one constant      *)
(* acceleration, calls with step dt on (position, velocity) and calls with *)
(* step dt/2 on (pos2, vel2).                                              *)

InitRK4 ==
    /\ InitPID({<<Zero, Zero, Zero>>}, Limits)
    /\ InitRK(Positions, Velocities, Accelerations, StepSizes)
    /\ InitAero({Unreadable})
    /\ InitSim({DefaultAircraft}, {Q(16, 1000)}, {Vec2(Zero, Zero)}, {Vec2(Zero, Zero)}, {FALSE},
               {FALSE})
    /\ InitAtmos

FullStep ==
    /\ nFull < MaxSteps
    /\ \E r \in { integrateRK4(position, velocity, acceleration, dt) } :
          /\ position' = r[1]
          /\ velocity' = r[2]
    /\ prePos' = position
    /\ preVel' = velocity
    /\ nFull' = nFull + 1
    /\ UNCHANGED <<pos2, vel2, acceleration, dt, nHalf, pidVars, aeroVars, simVars, atmVars>>

HalfStep ==
    /\ nHalf < 2 * MaxSteps
    /\ \E r \in { integrateRK4(pos2, vel2, acceleration, dDiv(dt, Q(2, 1))) } :
          /\ pos2' = r[1]
          /\ vel2' = r[2]
    /\ nHalf' = nHalf + 1
    /\ UNCHANGED <<position, velocity, prePos, preVel, acceleration, dt, nFull, pidVars, aeroVars, simVars, atmVars>>

NextRK4 == FullStep \/ HalfStep

SpecRK4 == InitRK4 /\ [][NextRK4]_vars

----------------------------------------------------------------------------
(* The table specification: one file is loaded with loadFromCSV, and the   *)
(* table it returned, if any, is asked for coefficients.                   *)

InitAeroTable ==
    /\ InitPID({<<Zero, Zero, Zero>>}, Limits)
    /\ InitRK({Vec2(Zero, Zero)}, {Vec2(Zero, Zero)}, {Vec2(Zero, Zero)}, {Zero})
    /\ InitAero(CsvFiles)
    /\ InitSim({DefaultAircraft}, {Q(16, 1000)}, {Vec2(Zero, Zero)}, {Vec2(Zero, Zero)}, {FALSE},
               {FALSE})
    /\ InitAtmos

GetCL ==
    /\ csvStatus = "ok"
    /\ nQueries < MaxQueries
    /\ \E deg \in QueryDegrees :
          /\ qAlpha' = radians(deg)
          /\ qResult' = getCL(table, radians(deg))
    /\ qWhich' = "CL"
    /\ nQueries' = nQueries + 1
    /\ UNCHANGED <<csvFile, csvStatus, table, pidVars, rkVars, simVars, atmVars>>

GetCD ==
    /\ csvStatus = "ok"
    /\ nQueries < MaxQueries
    /\ \E deg \in QueryDegrees :
          /\ qAlpha' = radians(deg)
          /\ qResult' = getCD(table, radians(deg))
    /\ qWhich' = "CD"
    /\ nQueries' = nQueries + 1
    /\ UNCHANGED <<csvFile, csvStatus, table, pidVars, rkVars, simVars, atmVars>>

NextAero == GetCL \/ GetCD

SpecAero == InitAeroTable /\ [][NextAero]_vars

----------------------------------------------------------------------------
(* The loading specification: the aircraft selector and the "Load          *)
(* Selected" button of renderControlPanel, on a freshly constructed        *)
(* simulation.                                                             *)

\* clicks on "Load Selected" in one behaviour
MaxLoads == 2

InitLoad ==
    /\ InitPID({<<Zero, Zero, Zero>>}, {<<Zero, Zero>>})
    /\ InitRK({Vec2(Zero, Zero)}, {Vec2(Zero, Zero)}, {Vec2(Zero, Zero)}, {Zero})
    /\ InitAero({Unreadable})
    /\ InitSim({DefaultAircraft}, {Q(16, 1000)}, {Vec2(Zero, Zero)}, {Vec2(Zero, Zero)}, {FALSE},
               {FALSE})
    /\ InitAtmos

\* ImGui::Combo writes the index of the chosen entry
SelectAircraft ==
    /\ \E i \in DOMAIN aircraft_configs :
          /\ i # ui_state.selected_aircraft
          /\ ui_state' = [ui_state EXCEPT !.selected_aircraft = i]
    /\ simOp' = "select"
    /\ UNCHANGED <<state, locals, ticks, nTicks, nEdits, nLoads, pidVars, rkVars, aeroVars, atmVars>>

ClickLoadSelected ==
    /\ nLoads < MaxLoads
    /\ \E r \in LoadSelected(state, ui_state) :
          /\ state' = r.state
          /\ ui_state' = r.ui_state
    /\ simOp' = "load"
    /\ nLoads' = nLoads + 1
    /\ UNCHANGED <<locals, ticks, nTicks, nEdits, pidVars, rkVars, aeroVars, atmVars>>

NextLoad == SelectAircraft \/ ClickLoadSelected

SpecLoad == InitLoad /\ [][NextLoad]_vars

----------------------------------------------------------------------------
(* Properties of PIDController, checked under Spec. *)

RawOutput == dAdd(dAdd(pid.p_term, pid.i_term), pid.d_term)

LimitsOrdered == dLe(pid.output_min, pid.output_max)

\* C1: with output_min <= output_max, every value returned by update lies in
\* [output_min, output_max], after any sequence of update, reset and
\* setOutputLimits calls.
C1_OutputWithinLimits ==
    (lastOp = "update" /\ LimitsOrdered)
        => (dLe(pid.output_min, ret) /\ dLe(ret, pid.output_max))

\* C1 witness: after a reset and a setOutputLimits, an update whose raw sum
\* lies below output_min returns output_min.
C1_Witness ==
    /\ lastOp = "update"
    /\ LimitsOrdered
    /\ nResets > 0
    /\ nLimits > 0
    /\ dLt(RawOutput, pid.output_min)
    /\ ret = pid.output_min

\* C2: the updates made after reset() return what the same calls return on a
\* freshly constructed controller with the same gains and limits.
C2_ResetLikeFresh ==
    (tracking /\ lastOp = "update") => (ret = freshRet)

\* C2 witness: updates accumulated an integral, reset was called, and a later
\* update returned a value driven by the integral term.
C2_Witness ==
    /\ tracking
    /\ lastOp = "update"
    /\ nUpdates > Len(calls)
    /\ pid.Ki # Zero
    /\ pid.i_term # Zero
    /\ ret = freshRet

CallError(k) == dSub(calls[k][1], calls[k][2])

\* C3: the derivative used by update is 0 on the first update of an instance
\* and on the first update after reset(); otherwise it is
\* (error - previousError)/dt with previousError the error of the preceding
\* update, except that it is 0 when dt <= 1e-10.
C3_Derivative ==
    lastOp = "update" =>
        LET n == Len(calls)
        IN  deriv = IF n = 1 THEN Zero
                    ELSE IF dLe(calls[n][3], Eps) THEN Zero
                    ELSE dDiv(dSub(CallError(n), CallError(n - 1)), calls[n][3])

\* C3 witness: a second update after a reset, with a changed error and
\* dt > 1e-10, whose predecessor returned a saturated output.
C3_Witness ==
    /\ lastOp = "update"
    /\ nResets > 0
    /\ Len(calls) >= 2
    /\ dGt(calls[Len(calls)][3], Eps)
    /\ deriv # Zero
    /\ pid.Kd # Zero

SameCalls == \A k \in 1..Len(calls) : calls[k] = calls[1]

\* n * e * dt for the n identical calls made since construction or reset
Ramp == dMul(Q(Len(calls), 1), dMul(CallError(1), calls[1][3]))

\* C4: an I-only controller (Kp = 0, Kd = 0, Ki = 1) driven by a constant
\* error e with constant step dt returns n*e*dt from its n-th update, as long
\* as that value is inside the output limits and the anti-windup bound.
C4_IntegralRamp ==
    ( /\ lastOp = "update"
      /\ ~touched
      /\ pid.Kp = Zero /\ pid.Kd = Zero /\ pid.Ki = Q(1, 1)
      /\ SameCalls
      /\ dLe(pid.output_min, Ramp) /\ dLe(Ramp, pid.output_max)
      /\ dLe(dNeg(max_integral(pid)), Ramp) /\ dLe(Ramp, max_integral(pid)) )
        => dEq(ret, Ramp)

\* C4 witness: the third update(10, 5, 0.1) with limits [-10, 10] returns 1.5.
C4_Witness ==
    /\ lastOp = "update"
    /\ ~touched
    /\ pid.Kp = Zero /\ pid.Kd = Zero /\ pid.Ki = Q(1, 1)
    /\ calls = << <<Q(10, 1), Q(5, 1), Q(1, 10)>>,
                  <<Q(10, 1), Q(5, 1), Q(1, 10)>>,
                  <<Q(10, 1), Q(5, 1), Q(1, 10)>> >>
    /\ pid.output_min = Q(-10, 1) /\ pid.output_max = Q(10, 1)
    /\ ret = Q(3, 2)

\* C5: after every update the stored integral satisfies
\* -maxIntegral <= integral <= maxIntegral with
\* maxIntegral = (outputMax - outputMin)/(Ki + 1e-10).
C5_AntiWindupBound ==
    lastOp = "update" =>
        ( /\ dLe(dNeg(max_integral(pid)), pid.integral)
          /\ dLe(pid.integral, max_integral(pid)) )

AllGainsZero == pid.Kp = Zero /\ pid.Ki = Zero /\ pid.Kd = Zero

\* C6 as stated: with Kp = Ki = Kd = 0 every update returns 0, for any
\* configured output limits.
C6_ZeroGainsZeroOutput ==
    (lastOp = "update" /\ AllGainsZero) => (ret = Zero)

\* C6 amended: with Kp = Ki = Kd = 0 and output_min <= output_max every update
\* returns 0 clamped to the limits: 0 when output_min <= 0 <= output_max, else
\* the limit nearest to 0.
C6_ZeroGainsClampedZero ==
    (lastOp = "update" /\ AllGainsZero /\ LimitsOrdered)
        => ret = IF dLt(Zero, pid.output_min) THEN pid.output_min
                 ELSE IF dLt(pid.output_max, Zero) THEN pid.output_max
                 ELSE Zero

\* C6 witness: zero gains, limits around 0, a second update with a non-zero
\* accumulated integral returns 0.
C6_Witness ==
    /\ lastOp = "update"
    /\ AllGainsZero
    /\ dLe(pid.output_min, Zero) /\ dLe(Zero, pid.output_max)
    /\ Len(calls) >= 2
    /\ pid.integral # Zero
    /\ ret = Zero

\* C7: reset() sets integral, previous_error and the P/I/D terms to zero,
\* re-enters the first-update state, and leaves Kp, Ki, Kd, output_min and
\* output_max unchanged.
C7_ResetFrame ==
    [][ lastOp' = "reset" =>
          /\ pid'.integral = Zero
          /\ pid'.previous_error = Zero
          /\ pid'.p_term = Zero /\ pid'.i_term = Zero /\ pid'.d_term = Zero
          /\ pid'.first_update = TRUE
          /\ pid'.Kp = pid.Kp /\ pid'.Ki = pid.Ki /\ pid'.Kd = pid.Kd
          /\ pid'.output_min = pid.output_min
          /\ pid'.output_max = pid.output_max ]_vars

\* C7 witness: a reset of a controller that had been updated and whose limits
\* had been changed.
C7_Witness ==
    /\ lastOp = "reset"
    /\ nUpdates > 0
    /\ nLimits > 0
    /\ pid.first_update
    /\ pid.integral = Zero

\* C8: setOutputLimits(min, max) changes only output_min and output_max; the
\* gains, the integral, previous_error and the first-update flag are
\* unchanged and the stored integral is not re-clamped.
C8_SetLimitsFrame ==
    [][ lastOp' = "setOutputLimits" =>
          \E l \in NewLimits :
              pid' = [pid EXCEPT !.output_min = l[1], !.output_max = l[2]] ]_vars

\* C8 witness: after setOutputLimits the stored integral lies outside the
\* anti-windup bound of the new limits.
C8_Witness ==
    /\ lastOp = "setOutputLimits"
    /\ dLt(Zero, max_integral(pid))
    /\ \/ dLt(max_integral(pid), pid.integral)
       \/ dLt(pid.integral, dNeg(max_integral(pid)))

----------------------------------------------------------------------------
(* Properties of integrateRK4, checked under SpecRK4. *)

vEq(u, w) == dEq(u[1], w[1]) /\ dEq(u[2], w[2])

\* C9: integrateRK4 yields newVelocity = velocity + acceleration*dt and
\* newPosition = position + velocity*dt + 0.5*acceleration*dt^2.
C9_ClosedForm ==
    nFull > 0 =>
        /\ vEq(velocity, vPlus(preVel, vTimes(acceleration, dt)))
        /\ vEq(position,
               vPlus(vPlus(prePos, vTimes(preVel, dt)),
                     vTimes(acceleration, dMul(Q(1, 2), dMul(dt, dt)))))

\* C9 witness: a second step with non-zero velocity and acceleration.
C9_Witness ==
    /\ nFull = 2
    /\ acceleration = Vec2(Q(2, 1), Q(-981, 100))
    /\ preVel # Vec2(Zero, Zero)
    /\ dt = Q(1, 10)

\* C10: from the same start and with the same constant acceleration, two
\* calls with step dt/2 give the position and velocity of one call with
\* step dt.
C10_StepSplitting ==
    nHalf = 2 * nFull => (vEq(pos2, position) /\ vEq(vel2, velocity))

\* C10 witness: one step of 0.1 against two steps of 0.05 under acceleration
\* (2, -9.81) from velocity (5, 0).
C10_Witness ==
    /\ nFull = 1
    /\ nHalf = 2
    /\ dt = Q(1, 10)
    /\ acceleration = Vec2(Q(2, 1), Q(-981, 100))
    /\ preVel = Vec2(Q(5, 1), Zero)
    /\ vEq(pos2, position)

----------------------------------------------------------------------------
(* Properties of AeroDataTable, checked under SpecAero. *)

Asked == qWhich # "none"

front == table[1]

back == table[Len(table)]

\* C11: for a non-empty table sorted ascending by angle, getCL / getCD at
\* any alpha at or below the smallest sample angle return the first
\* sample's coefficient and at any alpha at or above the largest sample
\* angle return the last sample's coefficient: no extrapolation.
C11_ClampOutsideDomain ==
    (Asked /\ table # <<>> /\ IsSortedByAlpha(table)) =>
        /\ dLe(qAlpha, front.alpha) => qResult = front[qWhich]
        /\ (dLe(back.alpha, qAlpha) /\ ~dLe(qAlpha, front.alpha)) => qResult = back[qWhich]

C11_Witness ==
    /\ Asked
    /\ Len(table) >= 3
    /\ dLt(back.alpha, qAlpha)
    /\ qResult = back[qWhich]
    /\ qResult # table[Len(table) - 1][qWhich]

Inside == dLt(front.alpha, qAlpha) /\ dLt(qAlpha, back.alpha)

SamplesAt(alpha) == { i \in 1..Len(table) : table[i].alpha = alpha }

\* the straight line through samples i and i + 1, evaluated at alpha
Chord(i, alpha) ==
    dAdd(table[i][qWhich],
         dDiv(dMul(dSub(alpha, table[i].alpha), dSub(table[i + 1][qWhich], table[i][qWhich])),
              dSub(table[i + 1].alpha, table[i].alpha)))

NumericField(token) == stod(token).ok

\* a row that carries a data point: three numeric fields
IsDataRow(line) ==
    /\ ~IsBlank(line)
    /\ Len(Tokens(line)) >= 3
    /\ \A k \in 1..3 : NumericField(Tokens(line)[k])

RowPoint(line) ==
    DataPoint(radians(stod(Tokens(line)[1]).value),
              stod(Tokens(line)[2]).value, stod(Tokens(line)[3]).value)

ValidPoints(file) == { RowPoint(file.lines[i]) : i \in { j \in 1..Len(file.lines) : IsDataRow(file.lines[j]) } }

\* C20: loadFromCSV fails exactly when the file cannot be opened or no
\* valid data point is parsed; rows whose angle field is not numeric are
\* skipped without failing the load, wherever they occur; a successful
\* load returns a non-empty table of the file's data points, sorted
\* ascending by angle, with angles converted from degrees to radians.
C20_LoadFromCSV ==
    /\ csvStatus # "ok" <=> (~csvFile.readable \/ ValidPoints(csvFile) = {})
    /\ csvStatus = "ok" =>
          /\ table # <<>>
          /\ IsSortedByAlpha(table)
          /\ { table[i] : i \in 1..Len(table) } = ValidPoints(csvFile)

----------------------------------------------------------------------------
(* The atmosphere specification: calls of getTemperature, in any order and *)
(* with repeats, for altitudes of the troposphere.                         *)

\* calls of getTemperature in one behaviour
MaxAtmos == 3

\* altitudes in metres: the ends of the troposphere, the altitudes of
\* tests/atmos_tests.cpp, and altitudes that are not whole numbers
Altitudes ==
    { Zero, Q(1, 2), Q(1, 1), Q(1001, 10), Q(5000, 1), Q(10999, 1), Q(11000, 1) }

InitAtmosphere ==
    /\ InitPID({<<Zero, Zero, Zero>>}, {<<Zero, Zero>>})
    /\ InitRK({Vec2(Zero, Zero)}, {Vec2(Zero, Zero)}, {Vec2(Zero, Zero)}, {Zero})
    /\ InitAero({Unreadable})
    /\ InitSim({DefaultAircraft}, {Q(16, 1000)}, {Vec2(Zero, Zero)}, {Vec2(Zero, Zero)}, {FALSE},
               {FALSE})
    /\ InitAtmos

\* one call of getTemperature
GetTemperature ==
    /\ Len(atmCalls) < MaxAtmos
    /\ \E h \in Altitudes : atmCalls' = Append(atmCalls, <<h, getTemperature(h)>>)
    /\ UNCHANGED <<pidVars, rkVars, aeroVars, simVars>>

NextAtmosphere == GetTemperature

SpecAtmosphere == InitAtmosphere /\ [][NextAtmosphere]_vars

----------------------------------------------------------------------------
(* The simulation specification: ticks of updatePhysics between the edits  *)
(* the control panel makes to the state, for an aircraft that was loaded   *)
(* before the run, a flight condition the simulation passes through and    *)
(* the two autopilots both off or, in flight with some of the aircraft,    *)
(* both on; the parked aircraft may be paused.                             *)

\* calls of updatePhysics in one behaviour
MaxTicks == 3

\* edits of the controls in one behaviour
MaxEdits == 1

\* the aircraft each sound selector entry loads
LoadedAircraft ==
    UNION { { r.aircraft : r \in { o \in loadFromJSON(aircraft_configs[i].filepath) :
                                      o.status = "ok" } }
            : i \in { j \in DOMAIN aircraft_configs : aircraft_configs[j].filepath # <<>> } }
    \cup { DefaultAircraft }

\* the aircraft that start with the autopilots on: the default one and the
\* one that flies on a table
AutopilotAircraft == { ac \in LoadedAircraft : ac = DefaultAircraft \/ hasAeroTable(ac) }

\* <<position, velocity>>: parked, rolling on the runway, in level flight
FlightConditions ==
    { <<Vec2(Zero, Zero), Vec2(Zero, Zero)>>,
      <<Vec2(Zero, Zero), Vec2(Q(1, 1), Zero)>>,
      <<Vec2(Zero, Q(100, 1)), Vec2(Q(30, 1), Zero)>> }

\* the time step of a run
TickSteps == { Q(1, 4) }

\* positions of the throttle slider, as float values
Throttles == { Q(1, 128), Q(1, 64) }

\* <<field, value>>: positions of the gain sliders of the speed autopilot
\* (Kp in 0 .. 0.1), as float values
SpeedGainEdits == { <<"pid_kp", Q(1, 16)>> }

\* of the altitude autopilot (Kd in 0 .. 2)
AltitudeGainEdits == { <<"alt_pid_kd", Q(1, 1)>> }

InitSimulation ==
    /\ InitPID({<<Zero, Zero, Zero>>}, {<<Zero, Zero>>})
    /\ InitRK({Vec2(Zero, Zero)}, {Vec2(Zero, Zero)}, {Vec2(Zero, Zero)}, {Zero})
    /\ InitAero({Unreadable})
    /\ \E c \in FlightConditions :
          \/ InitSim(LoadedAircraft, TickSteps, {c[1]}, {c[2]}, {FALSE},
                     IF c[2] = Vec2(Zero, Zero) THEN BOOLEAN ELSE {FALSE})
          \/ /\ c[1][2] # Zero
             /\ InitSim(AutopilotAircraft, TickSteps, {c[1]}, {c[2]}, {TRUE}, {FALSE})
    /\ InitAtmos

\* one call of updatePhysics
Tick ==
    /\ nTicks < MaxTicks
    /\ \E lib1 \in Libs(state.speed_pid), lib2 \in Libs(state.altitude_pid) :
          \E r \in { updatePhysics(<<lib1, lib2>>, state) } :
              /\ state' = r.state
              /\ locals' = r.locals
              /\ ticks' = IF r.locals.ran THEN Append(ticks, r.state.position) ELSE ticks
    /\ simOp' = "tick"
    /\ nTicks' = nTicks + 1
    /\ UNCHANGED <<ui_state, nEdits, nLoads, pidVars, rkVars, aeroVars, atmVars>>

\* the frame of an edit
Edit(op) ==
    /\ nEdits < MaxEdits
    /\ nEdits' = nEdits + 1
    /\ simOp' = op
    /\ UNCHANGED <<ui_state, locals, nTicks, nLoads, pidVars, rkVars, aeroVars, atmVars>>

\* the Pause / Resume button
TogglePause ==
    /\ Edit("pause")
    /\ state' = [state EXCEPT !.paused = ~state.paused]
    /\ UNCHANGED ticks

\* the throttle slider
SetThrottle ==
    /\ Edit("throttle")
    /\ \E v \in Throttles : state' = [state EXCEPT !.throttle = v]
    /\ UNCHANGED ticks

\* the "Enable Speed Autopilot" checkbox
ToggleSpeedAutopilot ==
    /\ Edit("autopilot_speed")
    /\ state' = [state EXCEPT !.autopilot_speed = ~state.autopilot_speed,
                              !.speed_pid = IF ~state.autopilot_speed
                                            THEN reset(state.speed_pid)
                                            ELSE state.speed_pid]
    /\ UNCHANGED ticks

\* the "Enable Altitude Autopilot" checkbox
ToggleAltitudeAutopilot ==
    /\ Edit("autopilot_altitude")
    /\ state' = [state EXCEPT !.autopilot_altitude = ~state.autopilot_altitude,
                              !.altitude_pid = IF ~state.autopilot_altitude
                                               THEN reset(state.altitude_pid)
                                               ELSE state.altitude_pid]
    /\ UNCHANGED ticks

\* a gain slider of the speed autopilot, shown while the autopilot is on,
\* moved to another position
SetSpeedGain ==
    /\ Edit("speed_gain")
    /\ state.autopilot_speed
    /\ \E e \in SpeedGainEdits :
          /\ state[e[1]] # e[2]
          /\ \E s1 \in { [state EXCEPT ![e[1]] = e[2]] } :
                state' = [s1 EXCEPT !.speed_pid = PIDController(s1.pid_kp, s1.pid_ki, s1.pid_kd,
                                                                Zero, Q(1, 1))]
    /\ UNCHANGED ticks

\* a gain slider of the altitude autopilot
SetAltitudeGain ==
    /\ Edit("altitude_gain")
    /\ state.autopilot_altitude
    /\ \E e \in AltitudeGainEdits :
          /\ state[e[1]] # e[2]
          /\ \E s1 \in { [state EXCEPT ![e[1]] = e[2]] } :
                state' = [s1 EXCEPT !.altitude_pid =
                                       PIDController(s1.alt_pid_kp, s1.alt_pid_ki, s1.alt_pid_kd,
                                                     Q(-10, 1), Q(15, 1))]
    /\ UNCHANGED ticks

\* the Reset button sets reset_requested, and SimulationState::reset is
\* called for it before the next tick
ResetSimulation ==
    /\ Edit("reset")
    /\ state' = resetState([state EXCEPT !.reset_requested = TRUE])
    /\ ticks' = <<>>

NextSimulation ==
    \/ Tick
    \/ TogglePause
    \/ SetThrottle
    \/ ToggleSpeedAutopilot
    \/ ToggleAltitudeAutopilot
    \/ SetSpeedGain
    \/ SetAltitudeGain
    \/ ResetSimulation

SpecSimulation == InitSimulation /\ [][NextSimulation]_vars

----------------------------------------------------------------------------
(* C18: loading an aircraft configuration. *)

\* what the text of each offered configuration says: the six required
\* fields and the name of the data file
Written(name) ==
    IF name = "Default" THEN <<Q(120, 1), Q(160, 100), Q(57, 10), Q(25, 1000), Q(4, 100), Q(500, 1), <<>>>>
    ELSE IF name = "Massless" THEN <<Zero, Q(1, 1), Q(5, 1), Q(1, 2), Q(1, 4), Q(4, 1), <<>>>>
    ELSE <<Q(2, 1), Q(1, 1), Q(5, 1), Q(1, 2), Q(1, 4), Q(4, 1),
           IF name = "Table" THEN <<"t">>
           ELSE IF name = "MissingCsv" THEN <<"g">>
           ELSE IF name = "BadCsv" THEN <<"b">>
           ELSE <<>> >>

Mentions(message, what) == Find(message, what, 1) # 0

\* C18: a click on "Load Selected" for an entry whose file is unreadable or
\* lacks a well-formed required field leaves state.aircraft as it was, sets
\* load_error and a message that starts with "Error: " and names the file
\* or the field; a click for a sound entry sets every field of
\* state.aircraft to what the entry's file says (no table unless the file
\* names a readable one), whatever the aircraft was before, and clears
\* load_error
C18_LoadFailureKeepsAircraft ==
    [][simOp' = "load" =>
         LET cfg == aircraft_configs[ui_state.selected_aircraft]
             w == Written(cfg.name)
             ac == state'.aircraft
         IN  IF cfg.defect # <<>>
             THEN /\ state' = state
                  /\ ui_state'.load_error
                  /\ ui_state'.load_message[1] = "Error: "
                  /\ Mentions(ui_state'.load_message, cfg.defect)
             ELSE /\ <<ac.mass, ac.S, ac.CL_alpha, ac.CD0, ac.k, ac.maxThrust, ac.aeroDataFile>> = w
                  /\ hasAeroTable(ac) <=> cfg.name = "Table"
                  /\ state' = [state EXCEPT !.aircraft = ac]
                  /\ ~ui_state'.load_error
                  /\ ui_state'.load_message = <<"Loaded: ", cfg.name>>]_vars

\* a load failed after another aircraft than the default had been loaded,
\* and after a successful load had cleared the flag
C18_Witness ==
    /\ simOp = "load"
    /\ nLoads = 2
    /\ ui_state.load_error
    /\ state.aircraft # DefaultAircraft
    /\ hasAeroTable(state.aircraft)

----------------------------------------------------------------------------
(* C13 - C17, C19: a tick of the simulation. *)

\* the step is a call of updatePhysics that was not paused
TickRan == simOp' = "tick" /\ locals'.ran

\* integrateRK4 left position.y negative in the tick of this step
Landed == dLt(locals'.integrated[1][2], Zero)

\* C13: after a tick that was not paused, position.y >= 0; and where the
\* integration had left position.y < 0, position.y = 0 and velocity.y >= 0
C13_GroundConstraint ==
    [][TickRan =>
         /\ dLe(Zero, state'.position[2])
         /\ Landed => /\ state'.position[2] = Zero
                      /\ dLe(Zero, state'.velocity[2])]_vars

\* the velocity integrateRK4 left, with a downward y component set to zero
Remaining ==
    Vec2(locals'.integrated[2][1],
         IF dLt(locals'.integrated[2][2], Zero) THEN Zero ELSE locals'.integrated[2][2])

\* the remaining speed is below 0.1 m/s: the squares compare as the roots do
Slow ==
    dLt(dAdd(dMul(Remaining[1], Remaining[1]), dMul(Remaining[2], Remaining[2])), Q(1, 100))

\* C14: after a tick whose integration left position.y < 0, the velocity is
\* zero if the remaining speed is below 0.1 and the throttle the tick used is
\* below 0.01, and is the remaining velocity otherwise
C14_RestRule ==
    [][TickRan /\ Landed =>
         /\ locals'.f.throttle = state'.throttle
         /\ state'.velocity = IF Slow /\ dLt(state'.throttle, Q(1, 100))
                              THEN Vec2(Zero, Zero)
                              ELSE Remaining]_vars

\* a tick on the ground stopped an aircraft that the throttle had set moving
C14_Witness ==
    /\ simOp = "tick"
    /\ locals.ran
    /\ dLt(locals.integrated[1][2], Zero)
    /\ dGt(locals.integrated[2][1], Zero)
    /\ dGt(state.throttle, Zero)
    /\ state.velocity = Vec2(Zero, Zero)

\* the last n entries of a sequence
LastN(seq, n) == SubSeq(seq, Len(seq) - n + 1, Len(seq))

\* C15: the flight path is never longer than maxPathPoints, and holds, oldest
\* first, the points of the positions after the latest min(n, maxPathPoints)
\* of the n ticks that ran since construction or the last reset
C15_BoundedFifo ==
    /\ Len(state.flightPath) <= state.maxPathPoints
    /\ state.flightPath =
          LastN([i \in DOMAIN ticks |-> FlightPoint(ticks[i])],
                Min2(Len(ticks), state.maxPathPoints))

\* more ticks ran than the path holds, and the points kept differ
C15_Witness ==
    /\ Len(ticks) > state.maxPathPoints
    /\ Len(state.flightPath) = state.maxPathPoints
    /\ state.flightPath[1] # state.flightPath[2]
    /\ FlightPoint(ticks[1]) # state.flightPath[1]

\* C16: a call of updatePhysics while paused leaves every field of the state
\* as it was
C16_PausedNoOp ==
    [][simOp' = "tick" /\ state.paused => state' = state /\ ~locals'.ran]_vars

\* a paused tick with both autopilots on, after ticks that ran
C16_Witness ==
    /\ simOp = "tick"
    /\ state.paused
    /\ state.autopilot_speed
    /\ state.autopilot_altitude
    /\ ~state.speed_pid.first_update
    /\ nTicks = 3

\* the controller the speed autopilot updates in a tick from s, and its result
SpeedUpdate(s) ==
    update("ternary",
           IF s.pid_kp # s.prev_pid_kp \/ s.pid_ki # s.prev_pid_ki \/ s.pid_kd # s.prev_pid_kd
           THEN PIDController(s.pid_kp, s.pid_ki, s.pid_kd, Zero, Q(1, 1))
           ELSE s.speed_pid,
           s.speed_setpoint, magnitude(s.velocity), s.dt)

AltitudeUpdate(s) ==
    update("ternary",
           IF s.alt_pid_kp # s.prev_alt_pid_kp \/ s.alt_pid_ki # s.prev_alt_pid_ki
              \/ s.alt_pid_kd # s.prev_alt_pid_kd
           THEN PIDController(s.alt_pid_kp, s.alt_pid_ki, s.alt_pid_kd, Q(-10, 1), Q(15, 1))
           ELSE s.altitude_pid,
           s.altitude_setpoint, s.position[2], s.dt)

\* another value than v: a manual input that differs from the current one
Other(v, a, b) == IF v = a THEN b ELSE a

\* the state after the tick is the same for another throttle before it when
\* the speed autopilot is on, and for another alpha_deg when the altitude
\* autopilot is on
ManualInputIgnored ==
    (state.autopilot_speed \/ state.autopilot_altitude) =>
        \A s \in { [state EXCEPT !.throttle = IF state.autopilot_speed
                                               THEN Other(@, Zero, Q(1, 2)) ELSE @,
                                  !.alpha_deg = IF state.autopilot_altitude
                                                THEN Other(@, Zero, Q(5, 1)) ELSE @] } :
            updatePhysics(<<"ternary", "ternary">>, s).state = state'

\* C17 as stated: with the speed autopilot on, the throttle used for the
\* thrust and left in the state is the output of the speed controller for
\* (speed_setpoint, speed before the integration, dt); with the altitude
\* autopilot on, alpha_deg is the output of the altitude controller for
\* (altitude_setpoint, position.y before the integration, dt); and the manual
\* values do not matter
C17_AutopilotOutput ==
    [][TickRan =>
         /\ state.autopilot_speed =>
               /\ state'.throttle = SpeedUpdate(state).output
               /\ locals'.f.throttle = state'.throttle
         /\ state.autopilot_altitude =>
               state'.alpha_deg = AltitudeUpdate(state).output
         /\ ManualInputIgnored]_vars

\* C17: the same, with the throttle and alpha_deg being the controller
\* outputs converted to float
C17_AutopilotOutputAsFloat ==
    [][TickRan =>
         /\ state.autopilot_speed =>
               /\ \A out \in { SpeedUpdate(state).output } : state'.throttle = ToFloat(out)
               /\ locals'.f.throttle = state'.throttle
         /\ state.autopilot_altitude =>
               \A out \in { AltitudeUpdate(state).output } : state'.alpha_deg = ToFloat(out)
         /\ ManualInputIgnored]_vars

\* a tick in flight with both autopilots on set a throttle strictly inside
\* the limits that no slider position had written
C17_Witness ==
    /\ simOp = "tick"
    /\ locals.ran
    /\ state.autopilot_speed
    /\ state.autopilot_altitude
    /\ dLt(Zero, state.throttle)
    /\ dLt(state.throttle, Q(1, 1))
    /\ state.throttle \notin Throttles
    /\ locals.f.T_mag = calcThrust(state.throttle, state.aircraft.maxThrust)

\* the selector entries whose configuration names a data file that fails to
\* load: one that is absent, one that std::stod rejects
FailingDataFile ==
    { i \in DOMAIN aircraft_configs : aircraft_configs[i].name \in {"MissingCsv", "BadCsv"} }

\* C19: for a configuration naming a data file whose load fails, loadFromJSON
\* returns an Aircraft with the six fields of the configuration and no
\* table; a tick for that aircraft computes CL = CL_alpha * alpha and
\* CD = CD0 + k * CL * CL
C19_LegacyFallback ==
    /\ \A i \in FailingDataFile :
          /\ \A r \in loadFromCSV(Disk(Written(aircraft_configs[i].name)[7])) : r.status # "ok"
          /\ \A r \in loadFromJSON(aircraft_configs[i].filepath) :
                /\ r.status = "ok"
                /\ <<r.aircraft.mass, r.aircraft.S, r.aircraft.CL_alpha, r.aircraft.CD0,
                     r.aircraft.k, r.aircraft.maxThrust, r.aircraft.aeroDataFile>>
                      = Written(aircraft_configs[i].name)
                /\ r.aircraft.aeroTable = nullptr
    /\ [][TickRan /\ (\E i \in FailingDataFile :
                         state.aircraft \in { r.aircraft : r \in loadFromJSON(aircraft_configs[i].filepath) })
            => /\ locals'.f.CL = fl(dMul(state.aircraft.CL_alpha, locals'.f.alpha))
               /\ locals'.f.CD = fl(dAdd(state.aircraft.CD0,
                                         fl(dMul(fl(dMul(state.aircraft.k, locals'.f.CL)),
                                                 locals'.f.CL))))]_vars

\* a tick at a non-zero angle of attack for the aircraft whose data file
\* std::stod rejected
C19_Witness ==
    /\ simOp = "tick"
    /\ locals.ran
    /\ state.aircraft.aeroDataFile = <<"b">>
    /\ locals.f.alpha # Zero
    /\ locals.f.CL # Zero

----------------------------------------------------------------------------
(* C21: the temperature of the atmosphere. *)

\* C21: every call of getTemperature for an altitude h in [0, 11000] returned
\* 288.15 - 0.0065 * h (for h = n/d the fraction (5763000 * d - 130 * n) /
\* (20000 * d)), and calls for the same h returned the same value; a call
\* changes nothing but the record of the calls
C21_TemperatureLapse ==
    /\ \A i \in DOMAIN atmCalls :
          LET h == atmCalls[i][1]
          IN  /\ dLe(Zero, h) /\ dLe(h, Q(11000, 1))
              /\ atmCalls[i][2] = Q(5763000 * h[2][1] - 130 * h[1][1], 20000 * h[2][1])
    /\ \A i, j \in DOMAIN atmCalls :
          atmCalls[i][1] = atmCalls[j][1] => atmCalls[i][2] = atmCalls[j][2]

\* the altitude of the test and the top of the troposphere were asked for,
\* the first of them twice
C21_Witness ==
    /\ Len(atmCalls) = 3
    /\ atmCalls[1] = <<Q(5000, 1), Q(25565, 100)>>
    /\ atmCalls[2] = <<Q(11000, 1), Q(21665, 100)>>
    /\ atmCalls[3][1] = Q(5000, 1)

----------------------------------------------------------------------------
(* C22 - C26, C28, C29: more of the tick and the reset. *)

\* the gains of the speed autopilot differ from the recorded ones
SpeedGainsChanged(s) ==
    s.pid_kp # s.prev_pid_kp \/ s.pid_ki # s.prev_pid_ki \/ s.pid_kd # s.prev_pid_kd

AltitudeGainsChanged(s) ==
    s.alt_pid_kp # s.prev_alt_pid_kp \/ s.alt_pid_ki # s.prev_alt_pid_ki
       \/ s.alt_pid_kd # s.prev_alt_pid_kd

\* C22: in a tick that was not paused, the controller of an autopilot that
\* is on is, if its gains differ from the recorded ones, a controller newly
\* built from the gains with the limits [0, 1] (speed) or [-10, 15]
\* (altitude) and then updated once, and otherwise the controller of before
\* the tick updated once, its integral and previous error carried over; the
\* recorded gains are the current gains afterwards
C22_ReconstructOnGainChange ==
    [][TickRan =>
         /\ state.autopilot_speed =>
               /\ state'.speed_pid =
                     update("ternary",
                            IF SpeedGainsChanged(state)
                            THEN PIDController(state.pid_kp, state.pid_ki, state.pid_kd,
                                               Zero, Q(1, 1))
                            ELSE state.speed_pid,
                            state.speed_setpoint, magnitude(state.velocity), state.dt).pid
               /\ state'.speed_pid.output_min = Zero
               /\ state'.speed_pid.output_max = Q(1, 1)
               /\ ~SpeedGainsChanged(state')
               /\ <<state'.pid_kp, state'.pid_ki, state'.pid_kd>>
                     = <<state.pid_kp, state.pid_ki, state.pid_kd>>
         /\ state.autopilot_altitude =>
               /\ state'.altitude_pid =
                     update("ternary",
                            IF AltitudeGainsChanged(state)
                            THEN PIDController(state.alt_pid_kp, state.alt_pid_ki,
                                               state.alt_pid_kd, Q(-10, 1), Q(15, 1))
                            ELSE state.altitude_pid,
                            state.altitude_setpoint, state.position[2], state.dt).pid
               /\ state'.altitude_pid.output_min = Q(-10, 1)
               /\ state'.altitude_pid.output_max = Q(15, 1)
               /\ ~AltitudeGainsChanged(state')
               /\ <<state'.alt_pid_kp, state'.alt_pid_ki, state'.alt_pid_kd>>
                     = <<state.alt_pid_kp, state.alt_pid_ki, state.alt_pid_kd>>]_vars

\* a speed gain was moved, a tick recorded it and built the controller, and
\* a later tick carried the integral of that controller over
C22_Witness ==
    /\ simOp = "tick"
    /\ locals.ran
    /\ state.autopilot_speed
    /\ state.pid_kp = Q(1, 16)
    /\ state.prev_pid_kp = state.pid_kp
    /\ state.speed_pid.Kp = state.pid_kp
    /\ nTicks = 2
    /\ dGt(state.speed_pid.integral, dMul(state.speed_pid.previous_error, state.dt))

\* the fields SimulationState::reset is said to leave alone
Kept(s) ==
    <<s.aircraft, s.dt, s.maxPathPoints, s.paused,
      s.autopilot_speed, s.speed_setpoint, s.pid_kp, s.pid_ki, s.pid_kd,
      s.autopilot_altitude, s.altitude_setpoint, s.alt_pid_kp, s.alt_pid_ki, s.alt_pid_kd>>

\* C23: the reset leaves position and velocity (0, 0), the time 0, the flight
\* path empty, both controllers reset and reset_requested false, and leaves
\* the aircraft, dt, the path capacity, the gains, the setpoints, the
\* autopilot flags and the paused flag as they were
C23_ResetEffect ==
    [][simOp' = "reset" =>
         /\ state'.position = Vec2(Zero, Zero)
         /\ state'.velocity = Vec2(Zero, Zero)
         /\ state'.t = Zero
         /\ state'.flightPath = <<>>
         /\ state'.speed_pid = reset(state.speed_pid)
         /\ state'.altitude_pid = reset(state.altitude_pid)
         /\ ~state'.reset_requested
         /\ Kept(state') = Kept(state)]_vars

\* a reset in flight with both autopilots on, after three ticks that had
\* moved the aircraft, filled the path and run the controllers
C23_Witness ==
    /\ simOp = "reset"
    /\ nTicks = 3
    /\ locals.ran
    /\ Len(ticks) = 0
    /\ state.autopilot_speed
    /\ state.autopilot_altitude
    /\ state.speed_pid.first_update
    /\ state.speed_pid.Kp = state.pid_kp
    /\ hasAeroTable(state.aircraft)
    /\ state.t = Zero

\* C24: a tick that is not paused leaves the time dt later and a paused tick
\* leaves it as it was; the time is dt times the number of ticks that were
\* not paused since construction or the last reset
C24_TimeAdvance ==
    /\ [](state.t = dMul(Q(Len(ticks), 1), state.dt))
    /\ [][simOp' = "tick" =>
             /\ locals'.ran = ~state.paused
             /\ state'.t = IF state.paused THEN state.t ELSE dAdd(state.t, state.dt)
             /\ state'.dt = state.dt]_vars

\* a paused tick, then two ticks that ran: the time is two steps
C24_Witness ==
    /\ simOp = "tick"
    /\ locals.ran
    /\ nTicks = 3
    /\ Len(ticks) = 2
    /\ state.t = dAdd(state.dt, state.dt)
    /\ dGt(state.t, Zero)

\* the state with other force vectors stored
OtherForces(s) ==
    [s EXCEPT !.F_thrust_viz = Vec2(Q(7, 1), Q(-3, 1)),
              !.F_drag_viz = Vec2(Q(-11, 1), Q(1, 2)),
              !.F_lift_viz = Vec2(Q(1, 4), Q(13, 1)),
              !.F_weight_viz = Vec2(Q(5, 1), Q(-17, 1))]

\* the state without the stored force vectors
NoForces(s) ==
    [s EXCEPT !.F_thrust_viz = Vec2(Zero, Zero),
              !.F_drag_viz = Vec2(Zero, Zero),
              !.F_lift_viz = Vec2(Zero, Zero),
              !.F_weight_viz = Vec2(Zero, Zero)]

\* C25: a tick that was not paused stores the four force vectors it computed
\* and leaves the state it would leave with any other vectors stored before;
\* a paused tick leaves everything but the stored vectors as it would with
\* other vectors stored. So states that differ in the stored vectors only
\* agree on everything else after every sequence of ticks
C25_ForcesOutputOnly ==
    [][simOp' = "tick" =>
         \A r \in { updatePhysics(<<"ternary", "ternary">>, s).state :
                       s \in { OtherForces(state) } } :
            /\ NoForces(r) = NoForces(state')
            /\ locals'.ran =>
                  /\ r = state'
                  /\ state'.F_thrust_viz = locals'.f.F_thrust
                  /\ state'.F_drag_viz = locals'.f.F_drag
                  /\ state'.F_lift_viz = locals'.f.F_lift
                  /\ state'.F_weight_viz = locals'.f.F_weight]_vars

\* a third tick in flight with thrust, drag, lift and weight stored by the
\* ticks before it
C25_Witness ==
    /\ simOp = "tick"
    /\ locals.ran
    /\ Len(ticks) = 3
    /\ dGt(state.F_thrust_viz[1], Zero)
    /\ dLt(state.F_drag_viz[1], Zero)
    /\ dGt(state.F_lift_viz[2], Zero)
    /\ dLt(state.F_weight_viz[2], Zero)
    /\ OtherForces(state) # state

\* C26: in a tick that was not paused and found a speed below 1e-6 before
\* the integration, the drag vector computed and stored is (0, 0), the
\* velocity direction is (1, 0), and thrust and lift are that direction
\* rotated by alpha and by pi/2, times their magnitudes
C26_DegenerateSpeed ==
    [][TickRan /\ dLt(magnitude(state.velocity), Tiny6) =>
         /\ locals'.f.speed = magnitude(state.velocity)
         /\ locals'.f.F_drag = Vec2(Zero, Zero)
         /\ state'.F_drag_viz = Vec2(Zero, Zero)
         /\ locals'.f.velocityDir = Vec2(Q(1, 1), Zero)
         /\ locals'.f.F_thrust = vTimes(rotated(Vec2(Q(1, 1), Zero), locals'.f.alpha),
                                        locals'.f.T_mag)
         /\ locals'.f.F_lift = vTimes(rotated(Vec2(Q(1, 1), Zero), dDiv(M_PI, Q(2, 1))),
                                      locals'.f.L_mag)
         /\ IsFinite(locals'.f.F_thrust[1]) /\ IsFinite(locals'.f.F_thrust[2])]_vars

\* a tick of the parked aircraft with the throttle open: the thrust points
\* along (1, 0)
C26_Witness ==
    /\ simOp = "tick"
    /\ locals.ran
    /\ locals.f.speed = Zero
    /\ dGt(locals.f.T_mag, Zero)
    /\ dGt(locals.f.F_thrust[1], Zero)
    /\ locals.f.F_thrust[2] = Zero
    /\ locals.f.F_drag = Vec2(Zero, Zero)

\* the aircraft is parked: on the ground, not moving, the throttle below
\* 0.01 and the speed autopilot off
AtRest(s) ==
    /\ s.position[2] = Zero
    /\ s.velocity = Vec2(Zero, Zero)
    /\ dLt(s.throttle, Q(1, 100))
    /\ ~s.autopilot_speed

\* C28: a tick that was not paused, from rest, leaves position and velocity
\* as they were, whatever alpha_deg is
C28_RestFixedPoint ==
    [][TickRan /\ AtRest(state) =>
         /\ state'.position = state.position
         /\ state'.velocity = state.velocity]_vars

\* the newest point of a flight path
Newest(path) == path[Len(path)]

\* C29: a tick that was not paused appends one point to the flight path (the
\* oldest making room when the path is full), the point of the position the
\* ground constraint left, which is the position after the tick; and every
\* point of the path has an altitude >= 0
C29_HistoryPoint ==
    /\ [](\A i \in DOMAIN state.flightPath : dLe(Zero, state.flightPath[i][2]))
    /\ [][TickRan =>
             /\ state'.flightPath # <<>>
             /\ SubSeq(state'.flightPath, 1, Len(state'.flightPath) - 1)
                   = IF Len(state.flightPath) < state.maxPathPoints
                     THEN state.flightPath
                     ELSE Tail(state.flightPath)
             /\ Newest(state'.flightPath) = FlightPoint(state'.position)]_vars

----------------------------------------------------------------------------
(* C27: the anti-windup bound of PIDController::update. *)

\* C27: whatever the gains, the limits and the arguments of an update, the
\* divisor Ki + 1e-10 of its anti-windup bound is not zero and the bound
\* (output_max - output_min) / (Ki + 1e-10) is not negative, so that the
\* integral is clamped to an interval with lo <= hi
C27_BoundWellFormed ==
    lastOp = "update" =>
        /\ dAdd(pid.Ki, Eps) # Zero
        /\ dLe(Zero, max_integral(pid))
        /\ dLe(dNeg(max_integral(pid)), max_integral(pid))

----------------------------------------------------------------------------
(* C30: the pair of neighbours AeroDataTable::interpolate divides by. *)

\* the pairs of neighbours the loop of interpolate accepts for the angle asked
Brackets ==
    { i \in 1..(Len(table) - 1) :
        dLe(table[i].alpha, qAlpha) /\ dLe(qAlpha, table[i + 1].alpha) }

\* the first of them
FirstBracket == CHOOSE i \in Brackets : \A j \in Brackets : i <= j

\* C30: for a table in ascending order of alpha, repeated angles allowed, and
\* an angle strictly between its first and last, the loop finds a pair, the
\* first pair it finds has table[i].alpha < angle <= table[i + 1].alpha, the
\* divisor table[i + 1].alpha - table[i].alpha is positive, and the value
\* returned is the finite interpolation on that pair
C30_PositiveDenominator ==
    (Asked /\ table # <<>> /\ IsSortedByAlpha(table) /\ Inside) =>
        /\ Brackets # {}
        /\ dLt(table[FirstBracket].alpha, qAlpha)
        /\ dLe(qAlpha, table[FirstBracket + 1].alpha)
        /\ dGt(dSub(table[FirstBracket + 1].alpha, table[FirstBracket].alpha), Zero)
        /\ qResult = lerp(table, FirstBracket, qAlpha, qWhich)
        /\ IsFinite(qResult)

\* the angle asked is one the table holds twice: the pair after the first
\* has two equal angles
C30_Witness ==
    /\ Asked
    /\ Inside
    /\ Cardinality(SamplesAt(qAlpha)) = 2
    /\ Cardinality(Brackets) = 3
    /\ table[FirstBracket + 1].alpha = table[FirstBracket + 2].alpha
    /\ qResult = table[FirstBracket + 1][qWhich]

====
